---- MODULE Spec2Model ----
(***************************************************************************)
(* A model of the kepoki runtime: Runtime (spawn_agent / send / recv),     *)
(* the Agent Task loop (command drain, turn, response assembly) and the    *)
(* Anthropic HTTP/SSE backend adapter's error path.                        *)
(***************************************************************************)
EXTENDS Integers, Sequences, FiniteSets, TLC

(* ---------------------------------------------------------------- bounds *)
\* Number of agents the environment spawns at most.
MaxAgents == 2
\* Number of commands the environment sends at most (over all agents).
MaxSends == 2
\* Number of commands the environment sends at most to a lone agent.
MaxSoloSends == 3
\* Length of the backend event streams drawn in the assembler specification.
MaxStreamLen == 3
\* Number of frames of the byte streams drawn in the frame parser specification.
MaxFrames == 2

(* ------------------------------------------------------------ data model *)
\* Rust's Option<T>.
None == [tag |-> "None"]
Some(v) == [tag |-> "Some", val |-> v]

AgentIds == 1..MaxAgents

\* crate::agent::Agent, the agent definition (the fields the runtime reads).
DefaultAgent ==
    [name |-> "conversational-agent",
     prompt |-> "You are a helpful assistant designed for basic knowledge tasks. Always respond even if it means asking for guidance.",
     temperature |-> "0.5"]

\* The definitions the environment passes to spawn_agent.
Definitions == {[name |-> "a", prompt |-> "P", temperature |-> "0.7"]}

\* An initial state that is paused.
AgentStatePaused == [definition |-> DefaultAgent, messages |-> <<>>, paused |-> TRUE]

\* AgentState::default(): the state spawn_agent gives a new agent.
AgentStateDefault == [definition |-> DefaultAgent, messages |-> <<>>, paused |-> FALSE]

\* AgentCommand.
Exit == [type |-> "Exit"]
Pause == [type |-> "Pause"]
Unpause == [type |-> "Unpause"]
Terminate == [type |-> "Terminate"]
DumpState == [type |-> "DumpState"]
UserMessage(t) == [type |-> "UserMessage", text |-> t]

\* ContentBlock.
TextBlock(t) == [kind |-> "Text", text |-> t]
ToolUseBlock(i, n, in) == [kind |-> "ToolUse", id |-> i, name |-> n, input |-> in]

\* InputMessage.
InputMessage(r, c) == [role |-> r, content |-> c]

\* backend::Message, the message shell a MessageStart carries.
MessageShell == [id |-> "msg", content |-> <<>>, stop_reason |-> None, stop_sequence |-> None]

\* MessagesResponseEvent, the canonical streaming events.
EvPing == [type |-> "Ping"]
EvMessageStart == [type |-> "MessageStart", message |-> MessageShell]
EvMessageDelta(sr, ss) == [type |-> "MessageDelta", stop_reason |-> sr, stop_sequence |-> ss]
EvMessageStop == [type |-> "MessageStop"]
EvContentBlockStart(i, b) == [type |-> "ContentBlockStart", index |-> i, content_block |-> b]
EvTextDelta(i, t) == [type |-> "ContentBlockDelta", kind |-> "Text", index |-> i, text |-> t]
EvInputJsonDelta(i, j) ==
    [type |-> "ContentBlockDelta", kind |-> "InputJson", index |-> i, partial_json |-> j]
EvContentBlockStop(i) == [type |-> "ContentBlockStop", index |-> i]

\* A conversion that makes a Ping of every event.
AgentEventFromAsPing(event) == [variant |-> "Ping"]

\* impl From<MessagesResponseEvent> for AgentEvent.
AgentEventFrom(event) ==
    CASE event.type = "Ping" -> [variant |-> "Ping"]
      [] event.type = "MessageStart" -> [variant |-> "MessageStart", message |-> event.message]
      [] event.type = "MessageDelta" ->
            [variant |-> "MessageDelta",
             delta |-> [stop_reason |-> event.stop_reason, stop_sequence |-> event.stop_sequence]]
      [] event.type = "MessageStop" -> [variant |-> "MessageStop"]
      [] event.type = "ContentBlockStart" ->
            [variant |-> "ContentBlockStart", index |-> event.index,
             content_block |-> event.content_block]
      [] event.type = "ContentBlockDelta" /\ event.kind = "Text" ->
            [variant |-> "ContentBlockDelta", kind |-> "Text", index |-> event.index,
             text |-> event.text]
      [] event.type = "ContentBlockDelta" /\ event.kind = "InputJson" ->
            [variant |-> "ContentBlockDelta", kind |-> "InputJson", index |-> event.index,
             partial_json |-> event.partial_json]
      [] event.type = "ContentBlockStop" -> [variant |-> "ContentBlockStop", index |-> event.index]

\* The other AgentEvent variants.
AgMessage(m) == [variant |-> "Message", message |-> m]
AgStateDump(s) == [variant |-> "StateDump", state |-> s]
AgTerminated(r) == [variant |-> "Terminated", reason |-> r]
AgCompleted(h) == [variant |-> "Completed", handle |-> h]

\* KepokiError.
ErrNoRunningAgents == [kind |-> "NoRunningAgents"]
ErrAgentNotFound(h) == [kind |-> "AgentNotFound", handle |-> h]
ErrEventReceiverClosed(h) == [kind |-> "EventReceiverClosed", handle |-> h]
ErrUnexpectedEvent(h) == [kind |-> "UnexpectedEvent", handle |-> h]
\* A missing message reported as an unexpected event.
ErrNoMessageAsUnexpected(h) == [kind |-> "UnexpectedEvent", handle |-> h]
ErrNoMessageReceived(h) == [kind |-> "NoMessageReceived", handle |-> h]
ErrCustom(t) == [kind |-> "CustomError", text |-> t]
ErrJoinFailed(t) == [kind |-> "JoinFailed", text |-> t]

\* impl Display for AgentHandle: the name alone.
HandleText(h) == h.name

\* #[error(...)] of KepokiError: err.to_string().
ErrorText(err) ==
    CASE err.kind = "NoRunningAgents" ->
            "Attempted to communicate with the runtime without running agents"
      [] err.kind = "AgentNotFound" -> "Agent does not exist: " \o HandleText(err.handle)
      [] err.kind = "EventReceiverClosed" ->
            "Agent event receiver closed unexpectedly: " \o HandleText(err.handle)
      [] err.kind = "UnexpectedEvent" ->
            "Unexpected event received for agent " \o HandleText(err.handle)
      [] err.kind = "NoMessageReceived" ->
            "No message received from backend for agent: " \o HandleText(err.handle)
      [] err.kind = "CustomError" -> err.text
      [] err.kind = "JoinFailed" -> "Failed to join thread: " \o err.text

\* Result<T, E>.
Ok(v) == [tag |-> "Ok", val |-> v]
Err(e) == [tag |-> "Err", err |-> e]

(* -------------------------------------------------------------- backends *)
\* A backend as the environment hands it to spawn_agent: the HTTP status and
\* body the provider answers a call with, and, for a 2xx answer, the events
\* its stream yields and how the stream ends ("eos": Ok(None); "error": Err).
Backend(status, body, events, tail) ==
    [status |-> status, body |-> body, events |-> events, tail |-> tail]

\* An HTTP body: its text, and what serde_json::from_str::<ApiError> makes of it.
JsonErrorBody(t, m) ==
    [raw |-> "{error:{type:" \o t \o ",message:" \o m \o "}}",
     json |-> Some([type |-> t, message |-> m])]
TextBody(t) == [raw |-> t, json |-> None]

ScenarioAEvents ==
    << EvMessageStart,
       EvContentBlockStart(0, TextBlock("")),
       EvTextDelta(0, "Hi!"),
       EvContentBlockStop(0),
       EvMessageDelta(Some("EndTurn"), None),
       EvMessageStop >>

ScenarioABackend == Backend(200, TextBody(""), ScenarioAEvents, "eos")
OverloadedBackend == Backend(529, JsonErrorBody("overloaded_error", "busy"), <<>>, "eos")
BadGatewayBackend == Backend(502, TextBody("Bad Gateway"), <<>>, "eos")
ShortBackend == Backend(200, TextBody(""), <<EvMessageStart, EvMessageStop>>, "eos")
ViolatingBackend == Backend(200, TextBody(""), <<EvPing, EvMessageStop>>, "eos")
BrokenBackend == Backend(200, TextBody(""), <<EvMessageStart>>, "error")
SilentBackend == Backend(200, TextBody(""), <<EvPing>>, "eos")

(* ------------------------------------------------- anthropoki / adapter *)
\* StatusCode::is_success.
IsSuccess(status) == 200 <= status /\ status <= 299

\* impl Display for ApiError.
ApiErrorText(e) == e.type \o " - " \o e.message

\* AnthropicClient::messages_stream, from the status check on: a non-2xx answer
\* is decoded as an ApiError, or wrapped in a synthetic http_error_<status>.
MessagesStream(be) ==
    IF ~IsSuccess(be.status)
    THEN IF be.body.json.tag = "Some"
         THEN Err(be.body.json.val)
         ELSE Err([type |-> "http_error_" \o ToString(be.status), message |-> be.body.raw])
    ELSE Ok([events |-> be.events, tail |-> be.tail])

\* Result::unwrap: the value of an Ok, a panic on an Err.
Unwrap(r) == IF r.tag = "Ok" THEN Ok(r.val) ELSE [tag |-> "Panic", text |-> "task panicked"]

\* AnthropicBackend::messages: block_on(messages_stream(..)).map_err(CustomError).unwrap(),
\* wrapped in Ok(AnthropicMessageStream(..)).
BackendMessages(be) ==
    LET r == MessagesStream(be)
        mapped == IF r.tag = "Err" THEN Err(ErrCustom(ApiErrorText(r.err))) ELSE r
    IN  Unwrap(mapped)

(* ---------------------------------------------------- response assembler *)
\* HashMap::insert / HashMap::remove on the in-progress blocks.
MapInsert(m, k, v) == [j \in DOMAIN m \cup {k} |-> IF j = k THEN v ELSE m[j]]
MapRemove(m, k) == [j \in DOMAIN m \ {k} |-> m[j]]
EmptyMap == [j \in {} |-> None]

AsmOk(m, b) == [ok |-> TRUE, message |-> m, blocks |-> b]
\* A match that lets the stream go on where the code returns the error.
AsmErrIgnored(m, b) == [ok |-> TRUE, message |-> m, blocks |-> b]
AsmErr(m, b) == [ok |-> FALSE, message |-> m, blocks |-> b]

\* A merge that copies both fields of the delta, absent ones too.
MergeDeltaOverwriting(msg, delta) ==
    [msg EXCEPT !.stop_reason = delta.stop_reason, !.stop_sequence = delta.stop_sequence]

\* MessageDelta arm: present fields overwrite, absent fields are left alone.
MergeDelta(msg, delta) ==
    [msg EXCEPT !.stop_reason = IF delta.stop_reason.tag = "Some"
                                THEN delta.stop_reason ELSE @,
                !.stop_sequence = IF delta.stop_sequence.tag = "Some"
                                  THEN delta.stop_sequence ELSE @]

\* A ContentBlockStop arm that forgets every block in progress.
StopBlockClearing(b, index) == EmptyMap

\* ContentBlockStop arm: the block at the index, if any, is removed.
StopBlock(b, index) == IF index \in DOMAIN b THEN MapRemove(b, index) ELSE b

\* A ContentBlockDelta arm that lets a delta of the wrong kind pass.
ApplyDeltaLenient(m, b, event) ==
    IF event.index \notin DOMAIN b
    THEN AsmErr(m, b)
    ELSE LET block == b[event.index] IN
         IF event.kind = "Text" /\ block.kind = "Text"
         THEN AsmOk(m, [b EXCEPT ![event.index].text = @ \o event.text])
         ELSE IF event.kind = "InputJson" /\ block.kind = "ToolUse"
         THEN AsmOk(m, [b EXCEPT ![event.index].input = @ \o event.partial_json])
         ELSE AsmOk(m, b)

\* A ContentBlockDelta arm that puts the new piece in front of the old content.
ApplyDeltaPrepending(m, b, event) ==
    IF event.index \notin DOMAIN b
    THEN AsmErr(m, b)
    ELSE LET block == b[event.index] IN
         IF event.kind = "Text"
         THEN IF block.kind = "Text"
              THEN AsmOk(m, [b EXCEPT ![event.index].text = event.text \o @])
              ELSE AsmErr(m, b)
         ELSE IF block.kind = "ToolUse"
              THEN AsmOk(m, [b EXCEPT ![event.index].input = event.partial_json \o @])
              ELSE AsmErr(m, b)

\* ContentBlockDelta arm.
ApplyDelta(m, b, event) ==
    IF event.index \notin DOMAIN b
    THEN AsmErr(m, b)
    ELSE LET block == b[event.index] IN
         IF event.kind = "Text"
         THEN IF block.kind = "Text"
              THEN AsmOk(m, [b EXCEPT ![event.index].text = @ \o event.text])
              ELSE AsmErr(m, b)
         ELSE IF block.kind = "ToolUse"
              THEN AsmOk(m, [b EXCEPT ![event.index].input = @ \o event.partial_json])
              ELSE AsmErr(m, b)

\* A MessageStart arm that never finds a message open.
MessageOpenNever(m) == FALSE

\* message.is_some(): a MessageStart was taken in this turn.
MessageOpen(m) == m.tag = "Some"

\* A MessageStart arm that forgets the blocks opened before it.
StartMessageClearing(b) == EmptyMap

\* MessageStart arm, no message open: `blocks` is left as it is.
StartMessage(b) == b

\* A MessageStop arm that closes the message.
StopMessageClosing(m) == None

\* MessageStop arm, message open: `message` is left as it is.
StopMessage(m) == m

\* A test that finds no index in the map.
BlockPresentNever(b, index) == FALSE

\* blocks.insert(index, ..).is_some(): the index had a block in progress.
BlockPresent(b, index) == index \in DOMAIN b

\* The match over one stream event in Agent::run: the local `message` and
\* `blocks` after the event, or ok = FALSE for Err(UnexpectedEvent).
AsmStep(m, b, event) ==
    CASE event.type = "Ping" -> AsmOk(m, b)
      [] event.type = "MessageStart" ->
            IF MessageOpen(m) THEN AsmErr(m, b) ELSE AsmOk(Some(event.message), StartMessage(b))
      [] event.type = "MessageDelta" ->
            IF m.tag = "None" THEN AsmErr(m, b) ELSE AsmOk(Some(MergeDelta(m.val, event)), b)
      [] event.type = "MessageStop" ->
            IF m.tag = "None" THEN AsmErr(m, b) ELSE AsmOk(StopMessage(m), b)
      [] event.type = "ContentBlockStart" ->
            IF BlockPresent(b, event.index)
            THEN AsmErr(m, MapInsert(b, event.index, event.content_block))
            ELSE AsmOk(m, MapInsert(b, event.index, event.content_block))
      [] event.type = "ContentBlockDelta" -> ApplyDelta(m, b, event)
      [] event.type = "ContentBlockStop" -> AsmOk(m, StopBlock(b, event.index))

\* The orders HashMap::into_values may yield the keys in: any.
Orders(S) ==
    {f \in [1..Cardinality(S) -> S] : \A i, j \in 1..Cardinality(S) : i # j => f[i] # f[j]}

\* blocks.into_values().collect() under one iteration order.
CollectValues(b, order) == [j \in 1..Len(order) |-> b[order[j]]]

(* ---------------------------------------------------------- agent state *)
\* A handle_command whose UserMessage arm overwrites an unanswered user message.
HandleCommandOverwriting(st, cmd) ==
    IF cmd.type = "UserMessage" /\ Len(st.messages) > 0
       /\ st.messages[Len(st.messages)].role = "user"
    THEN [state |-> [st EXCEPT !.messages[Len(st.messages)] =
                        InputMessage("user", <<TextBlock(cmd.text)>>)],
          emit |-> None, ret |-> None]
    ELSE IF cmd.type = "UserMessage"
    THEN [state |-> [st EXCEPT !.messages =
                        Append(@, InputMessage("user", <<TextBlock(cmd.text)>>))],
          emit |-> None, ret |-> None]
    ELSE IF cmd.type = "DumpState"
    THEN [state |-> st, emit |-> Some(AgStateDump(st)), ret |-> None]
    ELSE IF cmd.type = "Exit"
    THEN [state |-> st, emit |-> None, ret |-> Some("SUCCESS")]
    ELSE [state |-> [st EXCEPT !.paused = (cmd.type = "Pause")], emit |-> None, ret |-> None]

\* Agent::handle_command: the state after the command, the event it emits
\* (if any) and what it returns: None for Ok(None), Some(code) for
\* Ok(Some(code)); the last arm is unreachable!(), a panic.
HandleCommand(st, cmd) ==
    CASE cmd.type = "Exit" -> [state |-> st, emit |-> None, ret |-> Some("SUCCESS")]
      [] cmd.type = "Pause" ->
            [state |-> [st EXCEPT !.paused = TRUE], emit |-> None, ret |-> None]
      [] cmd.type = "Unpause" ->
            [state |-> [st EXCEPT !.paused = FALSE], emit |-> None, ret |-> None]
      [] cmd.type = "DumpState" ->
            [state |-> st, emit |-> Some(AgStateDump(st)), ret |-> None]
      [] cmd.type = "UserMessage" ->
            [state |-> [st EXCEPT !.messages =
                           Append(@, InputMessage("user", <<TextBlock(cmd.text)>>))],
             emit |-> None, ret |-> None]
      [] OTHER -> [state |-> st, emit |-> None, ret |-> [tag |-> "Panic"]]

\* A drain loop that breaks for a trailing user message even when paused.
TurnDueIgnoringPause(st) ==
    /\ Len(st.messages) > 0
    /\ st.messages[Len(st.messages)].role = "user"

\* A drain loop that never breaks for a turn.
TurnDueNever(st) == FALSE

\* A drain loop that breaks for a turn whatever the role of the last entry.
TurnDueAnyRole(st) ==
    /\ Len(st.messages) > 0
    /\ ~st.paused

\* The test of the Empty arm of the drain loop: a turn is due.
TurnDue(st) ==
    /\ Len(st.messages) > 0
    /\ st.messages[Len(st.messages)].role = "user"
    /\ ~st.paused

\* A request that carries only the newest history entry.
MessagesRequestLastOnly(st) ==
    [messages |-> <<st.messages[Len(st.messages)]>>,
     max_tokens |-> "8192",
     system |-> Some(st.definition.prompt),
     temperature |-> Some(st.definition.temperature),
     tool_choice |-> None,
     tools |-> None]

\* The MessagesRequest of a turn.
MessagesRequest(st) ==
    [messages |-> st.messages,
     max_tokens |-> "8192",
     system |-> Some(st.definition.prompt),
     temperature |-> Some(st.definition.temperature),
     tool_choice |-> None,
     tools |-> None]

(* ------------------------------------------------------------- channels *)
\* UnboundedSender::send and UnboundedReceiver::recv / try_recv: a FIFO queue.
\* A channel that hands out the newest message first.
ChannelSendFront(q, x) == <<x>> \o q
ChannelSend(q, x) == Append(q, x)
\* A receiver that yields the newest message of the queue.
ChannelHeadNewest(q) == q[Len(q)]
ChannelHead(q) == Head(q)
ChannelRest(q) == Tail(q)

(* ---------------------------------------------------------------- state *)
VARIABLES
    handles,           \* the AgentHandles spawn_agent has returned, in order
    command_emitters,  \* Runtime.command_emitters: handle -> command channel
    thread_join_set,   \* Runtime.thread_join_set: agents whose task end is awaited
    recv_join_set,     \* Runtime.recv_join_set: agents with a next-event wait armed
    cmdq,              \* per agent: the command channel's queue
    evq,               \* per agent: the event channel's queue
    pc,                \* per agent: where Agent::run is
    taskResult,        \* per agent: what the blocking task ended with
    state,             \* per agent: Agent.state (AgentState)
    backend,           \* per agent: Agent.backend
    stream,            \* per agent: what is left of the turn's stream
    message,           \* per agent: the turn's local `message`
    blocks,            \* per agent: the turn's local `blocks`
    sends,             \* number of Runtime.send calls made
    lastSend,          \* what the last Runtime.send call did: its return, or a panic
    sentCount,         \* per agent: number of events sent on the event channel
    delivered,         \* per agent: the events Runtime.recv returned from its channel
    lastRecv,          \* what the last Runtime.recv call returned
    reaped,            \* per agent: the event recv returned for its task's end
    backendCalls,      \* per agent: number of Backend::messages calls
    turns,             \* per agent: number of turns completed
    userMsgs,          \* per agent: number of UserMessage commands processed
    lastPauseCmd,      \* per agent: the last Pause/Unpause command processed
    finalOrder,        \* per agent: the block indices of the last finalized message
    sse,               \* an anthropoki MessageStream and the transport it reads
    waits,             \* per agent: next-event waits held by recv_join_set
    spawnedWith,       \* per agent: the AgentDefinition passed to spawn_agent
    lastRequest        \* per agent: the last MessagesRequest handed to the backend

rtVars == <<handles, command_emitters, thread_join_set, recv_join_set>>
obsVars == <<delivered, lastRecv, reaped>>
turnVars == <<stream, message, blocks>>
ghostVars == <<backendCalls, turns, userMsgs, lastPauseCmd, finalOrder>>
auxVars == <<waits, spawnedWith, lastRequest>>
vars == <<handles, command_emitters, thread_join_set, recv_join_set, cmdq, evq, pc,
          taskResult, state, backend, stream, message, blocks, sends, lastSend,
          sentCount, delivered, lastRecv, reaped, backendCalls, turns, userMsgs, lastPauseCmd,
          finalOrder, sse, waits, spawnedWith, lastRequest>>

NoStream == [events |-> <<>>, tail |-> "eos"]
NoBackend == Backend(0, TextBody(""), <<>>, "eos")
Running == [tag |-> "Running"]

\* The handle spawn_agent returned for the agent with this uuid.
HandleOf(id) == handles[id]

\* Runtime::new(), and no agent yet.
RuntimeInit ==
    /\ handles = <<>>
    /\ command_emitters = EmptyMap
    /\ thread_join_set = {}
    /\ recv_join_set = {}
    /\ cmdq = [id \in AgentIds |-> <<>>]
    /\ evq = [id \in AgentIds |-> <<>>]
    /\ pc = [id \in AgentIds |-> "unspawned"]
    /\ taskResult = [id \in AgentIds |-> Running]
    /\ state = [id \in AgentIds |-> AgentStateDefault]
    /\ backend = [id \in AgentIds |-> NoBackend]
    /\ stream = [id \in AgentIds |-> NoStream]
    /\ message = [id \in AgentIds |-> None]
    /\ blocks = [id \in AgentIds |-> EmptyMap]
    /\ sends = 0
    /\ lastSend = None
    /\ sentCount = [id \in AgentIds |-> 0]
    /\ delivered = [id \in AgentIds |-> <<>>]
    /\ lastRecv = None
    /\ reaped = [id \in AgentIds |-> None]
    /\ backendCalls = [id \in AgentIds |-> 0]
    /\ turns = [id \in AgentIds |-> 0]
    /\ userMsgs = [id \in AgentIds |-> 0]
    /\ lastPauseCmd = [id \in AgentIds |-> "none"]
    /\ finalOrder = [id \in AgentIds |-> <<>>]
    /\ waits = [id \in AgentIds |-> 0]
    /\ spawnedWith = [id \in AgentIds |-> None]
    /\ lastRequest = [id \in AgentIds |-> None]

\* No MessageStream is looked at.
NoSse == [pc |-> "none"]

Init == RuntimeInit /\ sse = NoSse

(* -------------------------------------------------------------- runtime *)
\* todo!(): a panic, here of the caller of Runtime::send.
Todo == [tag |-> "Panic", text |-> "not yet implemented"]

\* The caller has panicked inside the Runtime: it unwinds, makes no further
\* call, and the Runtime it owns is dropped.
RuntimeDropped == lastSend = Todo

\* A uuid source that hands out the first handle's uuid again.
NewUuidFixed == IF handles = <<>> THEN Len(handles) + 1 ELSE handles[1].uuid

\* Uuid::new_v4(): a value no earlier handle carries (here: the next unused one).
NewUuid == Len(handles) + 1

\* JoinSet::spawn adds one task to the set; JoinSet::join_next takes the
\* finished one out of it.
JoinSetSpawn(n) == n + 1

\* A join_next that leaves the finished wait in the set.
JoinNextKeeping(n) == n

JoinNext(n) == n - 1

\* Runtime::spawn_agent.
Spawn(def, be) ==
    /\ ~RuntimeDropped
    /\ Len(handles) < MaxAgents
    /\ LET id == NewUuid
           agent_handle == [name |-> def.name, uuid |-> id]
       IN  /\ handles' = Append(handles, agent_handle)
           /\ pc' = [pc EXCEPT ![id] = "commands"]
           /\ state' = [state EXCEPT ![id] = AgentStateDefault]
           /\ backend' = [backend EXCEPT ![id] = be]
           /\ thread_join_set' = thread_join_set \cup {id}
           /\ recv_join_set' = recv_join_set \cup {id}
           /\ command_emitters' = MapInsert(command_emitters, agent_handle, id)
           /\ waits' = [waits EXCEPT ![id] = JoinSetSpawn(@)]
           /\ spawnedWith' = [spawnedWith EXCEPT ![id] = Some(def)]
    /\ UNCHANGED <<cmdq, evq, taskResult, turnVars, sends, lastSend, sse, lastRequest, sentCount,
                   obsVars, ghostVars>>

\* The command receiver lives in the Agent value and is dropped when run ends.
CommandReceiverAlive(id) == pc[id] # "done"

\* What Runtime::send does with the command: the Terminate test comes first,
\* then the lookup of the handle, then the send on the agent's channel, which
\* fails when the receiver was dropped.
SendResult(h, cmd) ==
    IF cmd.type = "Terminate" THEN Todo
    ELSE IF h \notin DOMAIN command_emitters THEN Err(ErrAgentNotFound(h))
    ELSE IF ~CommandReceiverAlive(command_emitters[h]) THEN Err(ErrAgentNotFound(h))
    ELSE Ok("unit")

\* Runtime::send. On the panic the Runtime is dropped: the command senders go
\* with command_emitters, and the waits of both join sets are aborted, the
\* event receivers with them.
Send(h, cmd) ==
    /\ ~RuntimeDropped
    /\ sends' = sends + 1
    /\ lastSend' = SendResult(h, cmd)
    /\ IF SendResult(h, cmd).tag = "Ok"
       THEN cmdq' = [cmdq EXCEPT ![command_emitters[h]] = ChannelSend(@, cmd)]
       ELSE UNCHANGED cmdq
    /\ IF SendResult(h, cmd) = Todo
       THEN /\ command_emitters' = EmptyMap
            /\ thread_join_set' = {}
            /\ recv_join_set' = {}
            /\ waits' = [id \in AgentIds |-> 0]
            /\ UNCHANGED handles
       ELSE UNCHANGED <<rtVars, waits>>
    /\ UNCHANGED <<evq, pc, taskResult, state, backend, turnVars, sentCount,
                   obsVars, ghostVars, sse, spawnedWith, lastRequest>>

\* The test with one of the two join sets forgotten, and with one negated.
NoAgentsEither == thread_join_set = {} \/ recv_join_set = {}
NoAgentsNegated == thread_join_set = {} /\ recv_join_set # {}

\* The test recv starts with.
NoAgents == thread_join_set = {} /\ recv_join_set = {}

\* Runtime::recv, first return: no agent's task or event is awaited.
RecvNoRunningAgents ==
    /\ ~RuntimeDropped
    /\ NoAgents
    /\ lastRecv' = Err(ErrNoRunningAgents)
    /\ UNCHANGED <<rtVars, cmdq, evq, pc, taskResult, state, backend, turnVars, sends, lastSend, sse, auxVars,
                   sentCount, delivered, reaped, ghostVars>>

\* What the future spawn_agent puts into thread_join_set resolves to.
ThreadOutput(id) ==
    IF taskResult[id].tag = "Panic"
    THEN Err(ErrJoinFailed(taskResult[id].text))
    ELSE taskResult[id]

\* A recv that reports every ended task as completed.
ThreadEventCompleted(h, result) == AgCompleted(h)

\* The AgentEvent recv makes of a task's end.
ThreadEvent(h, result) ==
    IF result.tag = "Ok" THEN AgCompleted(h) ELSE AgTerminated(ErrorText(result.err))

\* Runtime::recv, the thread_join_set arm of the select!: a task has ended.
RecvThread(id) ==
    /\ ~RuntimeDropped
    /\ ~NoAgents
    /\ id \in thread_join_set
    /\ taskResult[id] # Running
    /\ thread_join_set' = thread_join_set \ {id}
    /\ lastRecv' = Ok(ThreadEvent(HandleOf(id), ThreadOutput(id)))
    /\ reaped' = [reaped EXCEPT ![id] = Some(ThreadEvent(HandleOf(id), ThreadOutput(id)))]
    /\ UNCHANGED <<handles, command_emitters, recv_join_set, cmdq, evq, pc, taskResult,
                   state, backend, turnVars, sends, lastSend, sse, auxVars, sentCount, delivered, ghostVars>>

\* A recv that returns the event without spawning the wait again.
RearmNone(id) == {}

\* The wait recv spawns again for the agent whose event it returns.
Rearm(id) == {id}

\* Runtime::recv, the recv_join_set arm with Some(event): the event is
\* returned and the agent's next-event wait is spawned again.
RecvEvent(id) ==
    /\ ~RuntimeDropped
    /\ ~NoAgents
    /\ id \in recv_join_set
    /\ evq[id] # <<>>
    /\ evq' = [evq EXCEPT ![id] = ChannelRest(@)]
    /\ recv_join_set' = (recv_join_set \ {id}) \cup Rearm(id)
    /\ waits' = [waits EXCEPT ![id] = IF id \in Rearm(id) THEN JoinSetSpawn(JoinNext(@))
                                                          ELSE JoinNext(@)]
    /\ delivered' = [delivered EXCEPT ![id] = Append(@, ChannelHead(evq[id]))]
    /\ lastRecv' = Ok(ChannelHead(evq[id]).ev)
    /\ UNCHANGED <<handles, command_emitters, thread_join_set, cmdq, pc, taskResult,
                   state, backend, turnVars, sends, lastSend, sse, spawnedWith, lastRequest,
                   sentCount, reaped, ghostVars>>

\* An event channel that counts as closed while the task still runs.
EventSenderDroppedEarly(id) == TRUE

\* The event sender lives in the Agent value and is dropped when run ends.
EventSenderDropped(id) == pc[id] = "done"

\* Runtime::recv, the recv_join_set arm with None: the channel is closed and
\* empty, the error is returned and no wait is spawned for the agent.
RecvClosed(id) ==
    /\ ~RuntimeDropped
    /\ ~NoAgents
    /\ id \in recv_join_set
    /\ evq[id] = <<>>
    /\ EventSenderDropped(id)
    /\ recv_join_set' = recv_join_set \ {id}
    /\ waits' = [waits EXCEPT ![id] = JoinNext(@)]
    /\ lastRecv' = Err(ErrAgentNotFound(HandleOf(id)))
    /\ UNCHANGED <<handles, command_emitters, thread_join_set, cmdq, evq, pc, taskResult,
                   state, backend, turnVars, sends, lastSend, sse, spawnedWith, lastRequest,
                   sentCount, delivered, reaped,
                   ghostVars>>

(* ----------------------------------------------------------- agent task *)
\* Agent::run returns or panics: the Agent value, and the turn's locals, are dropped.
TaskEnd(id, result) ==
    /\ pc' = [pc EXCEPT ![id] = "done"]
    /\ taskResult' = [taskResult EXCEPT ![id] = result]
    /\ stream' = [stream EXCEPT ![id] = NoStream]
    /\ message' = [message EXCEPT ![id] = None]
    /\ blocks' = [blocks EXCEPT ![id] = EmptyMap]

\* Event receivers that all close when one agent's task fails.
EventReceiverAliveUntilFailure(id) ==
    /\ id \in recv_join_set
    /\ \A k \in AgentIds : taskResult[k].tag \notin {"Err", "Panic"}

\* The event receiver is held by the agent's next-event wait.
EventReceiverAlive(id) == id \in recv_join_set

\* An emitter that sends every event twice.
EmitTwice(id, event) ==
    /\ evq' = [evq EXCEPT ![id] =
                  ChannelSend(ChannelSend(@, [n |-> sentCount[id] + 1, ev |-> event]),
                              [n |-> sentCount[id] + 2, ev |-> event])]
    /\ sentCount' = [sentCount EXCEPT ![id] = @ + 2]

\* self.event_emitter.send(event), when the receiver is alive.
Emit(id, event) ==
    /\ evq' = [evq EXCEPT ![id] = ChannelSend(@, [n |-> sentCount[id] + 1, ev |-> event])]
    /\ sentCount' = [sentCount EXCEPT ![id] = @ + 1]

\* A task that also takes commands while it reads the stream.
InDrainLoopOrStream(id) == pc[id] \in {"commands", "stream"}

\* Agent::run is in its inner loop, the only place where it calls try_recv.
InDrainLoop(id) == pc[id] = "commands"

\* The drain loop, Ok(command) arm: one command is taken and handled.
AgentCommand(id) ==
    /\ InDrainLoop(id)
    /\ cmdq[id] # <<>>
    /\ LET cmd == ChannelHead(cmdq[id])
           r == HandleCommand(state[id], cmd)
       IN  /\ cmdq' = [cmdq EXCEPT ![id] = ChannelRest(@)]
           /\ state' = [state EXCEPT ![id] = r.state]
           /\ userMsgs' = [userMsgs EXCEPT ![id] = IF cmd.type = "UserMessage" THEN @ + 1 ELSE @]
           /\ lastPauseCmd' = [lastPauseCmd EXCEPT ![id] =
                                  IF cmd.type \in {"Pause", "Unpause"} THEN cmd.type ELSE @]
           /\ IF r.ret.tag = "Panic"
              THEN TaskEnd(id, [tag |-> "Panic", text |-> "task panicked"])
                   /\ UNCHANGED <<evq, sentCount>>
              ELSE IF r.emit.tag = "Some" /\ ~EventReceiverAlive(id)
              THEN TaskEnd(id, Err(ErrEventReceiverClosed(HandleOf(id))))
                   /\ UNCHANGED <<evq, sentCount>>
              ELSE /\ IF r.emit.tag = "Some"
                      THEN Emit(id, r.emit.val)
                      ELSE UNCHANGED <<evq, sentCount>>
                   /\ IF r.ret.tag = "Some"
                      THEN TaskEnd(id, Ok(r.ret.val))
                      ELSE UNCHANGED <<pc, taskResult, turnVars>>
    /\ UNCHANGED <<rtVars, backend, sends, lastSend, sse, auxVars, obsVars, backendCalls, turns, finalOrder>>

\* The command sender lives in Runtime.command_emitters.
CommandSenderDropped(id) == HandleOf(id) \notin DOMAIN command_emitters

\* The drain loop's Disconnected arm: the queue is empty and the sender is
\* gone, run returns Ok(ExitCode::FAILURE).
AgentDisconnected(id) ==
    /\ pc[id] = "commands"
    /\ cmdq[id] = <<>>
    /\ CommandSenderDropped(id)
    /\ TaskEnd(id, Ok("FAILURE"))
    /\ UNCHANGED <<rtVars, cmdq, evq, state, backend, sends, lastSend, sse, auxVars, sentCount, obsVars,
                   ghostVars>>

\* The drain loop's Empty arm breaks, and the turn calls Backend::messages.
AgentBeginTurn(id) ==
    /\ pc[id] = "commands"
    /\ cmdq[id] = <<>>
    /\ ~CommandSenderDropped(id)
    /\ TurnDue(state[id])
    /\ backendCalls' = [backendCalls EXCEPT ![id] = @ + 1]
    /\ lastRequest' = [lastRequest EXCEPT ![id] = Some(MessagesRequest(state[id]))]
    /\ LET r == BackendMessages(backend[id]) IN
       IF r.tag = "Ok"
       THEN /\ pc' = [pc EXCEPT ![id] = "stream"]
            /\ stream' = [stream EXCEPT ![id] = r.val]
            /\ message' = [message EXCEPT ![id] = None]
            /\ blocks' = [blocks EXCEPT ![id] = EmptyMap]
            /\ UNCHANGED taskResult
       ELSE TaskEnd(id, r)
    /\ UNCHANGED <<rtVars, cmdq, evq, state, backend, sends, lastSend, sse, waits, spawnedWith,
                   sentCount, obsVars, turns,
                   userMsgs, lastPauseCmd, finalOrder>>

\* One round of `while let Some(event) = stream.recv()?`: the event is relayed
\* and fed to the assembler.
AgentStreamEvent(id) ==
    /\ pc[id] = "stream"
    /\ stream[id].events # <<>>
    /\ LET event == Head(stream[id].events)
           r == AsmStep(message[id], blocks[id], event)
       IN  IF ~EventReceiverAlive(id)
           THEN TaskEnd(id, Err(ErrEventReceiverClosed(HandleOf(id))))
                /\ UNCHANGED <<evq, sentCount>>
           ELSE /\ Emit(id, AgentEventFrom(event))
                /\ IF r.ok
                   THEN /\ stream' = [stream EXCEPT ![id].events = Tail(@)]
                        /\ message' = [message EXCEPT ![id] = r.message]
                        /\ blocks' = [blocks EXCEPT ![id] = r.blocks]
                        /\ UNCHANGED <<pc, taskResult>>
                   ELSE TaskEnd(id, Err(ErrUnexpectedEvent(HandleOf(id))))
    /\ UNCHANGED <<rtVars, cmdq, state, backend, sends, lastSend, sse, auxVars, obsVars, ghostVars>>

\* A finalization that leaves the shell's content as the MessageStart gave it.
FinalMessageShell(msg, b, order) == msg

\* The finalized message: the shell with the blocks left in the map as content.
FinalMessage(msg, b, order) == [msg EXCEPT !.content = CollectValues(b, order)]

\* stream.recv() yields Ok(None) or Err: the turn's `match message`.
AgentStreamEnd(id) ==
    /\ pc[id] = "stream"
    /\ stream[id].events = <<>>
    /\ IF stream[id].tail = "error"
       THEN /\ TaskEnd(id, Err(ErrCustom("transport error")))
            /\ UNCHANGED <<state, evq, sentCount, turns, finalOrder>>
       ELSE IF message[id].tag = "None"
       THEN /\ TaskEnd(id, Err(ErrNoMessageReceived(HandleOf(id))))
            /\ UNCHANGED <<state, evq, sentCount, turns, finalOrder>>
       ELSE \E order \in Orders(DOMAIN blocks[id]) :
              LET msg == FinalMessage(message[id].val, blocks[id], order) IN
              /\ state' = [state EXCEPT ![id].messages =
                              Append(@, InputMessage("assistant", msg.content))]
              /\ finalOrder' = [finalOrder EXCEPT ![id] = order]
              /\ IF EventReceiverAlive(id)
                 THEN /\ Emit(id, AgMessage(msg))
                      /\ pc' = [pc EXCEPT ![id] = "commands"]
                      /\ turns' = [turns EXCEPT ![id] = @ + 1]
                      /\ stream' = [stream EXCEPT ![id] = NoStream]
                      /\ message' = [message EXCEPT ![id] = None]
                      /\ blocks' = [blocks EXCEPT ![id] = EmptyMap]
                      /\ UNCHANGED taskResult
                 ELSE /\ TaskEnd(id, Err(ErrEventReceiverClosed(HandleOf(id))))
                      /\ UNCHANGED <<evq, sentCount, turns>>
    /\ UNCHANGED <<rtVars, cmdq, backend, sends, lastSend, sse, auxVars, obsVars, backendCalls, userMsgs,
                   lastPauseCmd>>

(* --------------------------------------------- anthropoki frame parser *)
\* Bytes are one-character strings. The line prefixes "event: " and "data: "
\* are two bytes each here, "e:" and "d:".
NL == "\n"
Whitespace == {NL, "\r", " "}
EventPrefix == <<"e", ":">>
DataPrefix == <<"d", ":">>

\* The data the provider sends, as JSON text of one byte, and what
\* serde_json::from_str makes of it.
SsePayloads == {"p", "q"}
FromJson(text) ==
    IF text = <<"p">> THEN Ok(Some(EvPing))
    ELSE IF text = <<"q">> THEN Ok(Some(EvMessageStop))
    ELSE Err("serde")

\* One frame on the wire: the event line, the data line, the blank line.
Frame(p) == EventPrefix \o <<"n", NL>> \o DataPrefix \o <<p, NL>> \o <<NL>>
FrameLen == Len(Frame("p"))

RECURSIVE Wire(_)
Wire(payloads) ==
    IF payloads = <<>> THEN <<>> ELSE Frame(Head(payloads)) \o Wire(Tail(payloads))

\* str::trim.
RECURSIVE TrimStart(_)
TrimStart(line) ==
    IF line # <<>> /\ Head(line) \in Whitespace THEN TrimStart(Tail(line)) ELSE line
RECURSIVE TrimEnd(_)
TrimEnd(line) ==
    IF line # <<>> /\ line[Len(line)] \in Whitespace
    THEN TrimEnd(SubSeq(line, 1, Len(line) - 1))
    ELSE line
Trim(line) == TrimEnd(TrimStart(line))

\* str::strip_prefix.
StripPrefix(line, prefix) ==
    IF Len(line) >= Len(prefix) /\ SubSeq(line, 1, Len(prefix)) = prefix
    THEN Some(SubSeq(line, Len(prefix) + 1, Len(line)))
    ELSE None

\* self.buf.iter().position(|&b| b == b'\n').
HasNewline(buf) == \E i \in 1..Len(buf) : buf[i] = NL
Position(buf) == CHOOSE i \in 1..Len(buf) : buf[i] = NL /\ \A j \in 1..(i - 1) : buf[j] # NL

\* A buffer that forgets what it holds when a chunk arrives.
BufReplace(buf, bytes) == bytes

\* self.buf.extend_from_slice(&bytes).
BufExtend(buf, bytes) == buf \o bytes

\* The MessageStream messages_stream returns, over a transport that will
\* deliver these bytes and then end ("eos") or fail ("error").
SseOpen(bytes, tail) ==
    [pc |-> "idle", source |-> bytes, transport |-> bytes, tail |-> tail, buf |-> <<>>,
     lines_parsed |-> 0, data |-> None, out |-> <<>>, midline |-> FALSE]

\* Everything but the MessageStream.
kepokiVars ==
    <<handles, command_emitters, thread_join_set, recv_join_set, cmdq, evq, pc, taskResult,
      state, backend, stream, message, blocks, sends, lastSend, sentCount, delivered,
      lastRecv, reaped, backendCalls, turns, userMsgs, lastPauseCmd, finalOrder,
      waits, spawnedWith, lastRequest>>

\* recv returns: the result is handed to the caller. After an event the
\* caller calls again; after Ok(None), an error or a panic it does not.
SseReturn(result, again) ==
    [sse EXCEPT !.out = Append(@, result), !.pc = IF again THEN "idle" ELSE "ended"]

\* MessageStream::recv is called: lines_parsed and data are its locals.
SseRecv ==
    /\ sse.pc = "idle"
    /\ sse' = [sse EXCEPT !.pc = "scan", !.lines_parsed = 0, !.data = None]
    /\ UNCHANGED kepokiVars

\* One round of the while loop: the buffer holds a whole line, which is
\* drained, trimmed, and handled by its place in the frame.
SseLine ==
    /\ sse.pc = "scan"
    /\ HasNewline(sse.buf)
    /\ LET at == Position(sse.buf)
           line == Trim(SubSeq(sse.buf, 1, at))
           rest == [sse EXCEPT !.buf = SubSeq(sse.buf, at + 1, Len(sse.buf))]
           panic == [rest EXCEPT !.out = Append(@, [tag |-> "Panic"]), !.pc = "ended"]
       IN  sse' =
             CASE sse.lines_parsed = 0 ->
                    IF StripPrefix(line, EventPrefix) = None
                    THEN panic
                    ELSE [rest EXCEPT !.lines_parsed = 1]
               [] sse.lines_parsed = 1 ->
                    IF StripPrefix(line, DataPrefix) = None
                    THEN panic
                    ELSE LET parsed == FromJson(StripPrefix(line, DataPrefix).val) IN
                         IF parsed.tag = "Err"
                         THEN [rest EXCEPT !.out = Append(@, parsed), !.pc = "ended"]
                         ELSE [rest EXCEPT !.data = Some(parsed.val), !.lines_parsed = 2]
               [] sse.lines_parsed = 2 ->
                    [rest EXCEPT !.out = Append(@, Ok(sse.data.val)), !.pc = "idle"]
    /\ UNCHANGED kepokiVars

\* self.stream.next() yields Some(Ok(bytes)): a chunk of n bytes.
SseChunk(n) ==
    /\ sse.pc = "scan"
    /\ ~HasNewline(sse.buf)
    /\ n \in 1..Len(sse.transport)
    /\ sse' = [sse EXCEPT !.buf = BufExtend(@, SubSeq(sse.transport, 1, n)),
                          !.transport = SubSeq(@, n + 1, Len(@)),
                          !.midline = @ \/ sse.transport[n] # NL]
    /\ UNCHANGED kepokiVars

\* self.stream.next() yields None or Some(Err(err)) when the transport has
\* no more bytes: recv returns Ok(None) or the error.
SseEnd ==
    /\ sse.pc = "scan"
    /\ ~HasNewline(sse.buf)
    /\ sse.transport = <<>>
    /\ sse' = SseReturn(IF sse.tail = "eos" THEN Ok(None) ELSE Err("reqwest"), FALSE)
    /\ UNCHANGED kepokiVars

(* -------------------------------------------------------- specification *)
Texts == {"hi"}
Commands == {Exit, Pause, Unpause, DumpState} \cup {UserMessage(t) : t \in Texts}

\* Runtime::recv is one of its four returns.
Recv ==
    \/ RecvNoRunningAgents
    \/ \E id \in AgentIds : RecvThread(id)
    \/ \E id \in AgentIds : RecvEvent(id)
    \/ \E id \in AgentIds : RecvClosed(id)

\* One step of Agent::run.
AgentTask(id) ==
    \/ AgentCommand(id)
    \/ AgentBeginTurn(id)
    \/ AgentStreamEvent(id)
    \/ AgentStreamEnd(id)

\* Several agents: the backends answer with a short stream, an error status,
\* or a stream that breaks the protocol.
Backends == {ShortBackend, OverloadedBackend, ViolatingBackend}

Next ==
    \/ \E def \in Definitions, be \in Backends : Spawn(def, be)
    \/ sends < MaxSends
       /\ \E h \in DOMAIN command_emitters, cmd \in Commands : Send(h, cmd)
    \/ Recv
    \/ \E id \in AgentIds : AgentTask(id)

Spec == Init /\ [][Next]_vars

\* Several agents whose tasks send events (relays, messages, state dumps) and
\* end with an exit or an error; recv keeps being called, and each call
\* returns an event that is ready (JoinSet::join_next yields finished waits
\* in the order they finished).
LiveBackends == {ShortBackend, ViolatingBackend}
LiveCommands == {Exit, DumpState} \cup {UserMessage(t) : t \in Texts}

LiveNext ==
    \/ \E def \in Definitions, be \in LiveBackends : Spawn(def, be)
    \/ sends < MaxSends
       /\ \E h \in DOMAIN command_emitters, cmd \in LiveCommands : Send(h, cmd)
    \/ Recv
    \/ \E id \in AgentIds : AgentTask(id)

FairSpec == Init /\ [][LiveNext]_vars /\ \A id \in AgentIds : WF_vars(RecvEvent(id))

\* One agent, more commands, and the backends of the end-to-end scenarios;
\* the caller also sends Terminate, and sends to a handle spawn_agent never
\* returned.
SoloBackends ==
    {ScenarioABackend, OverloadedBackend, BadGatewayBackend, ViolatingBackend, BrokenBackend,
     SilentBackend}
SoloCommands == Commands \cup {Terminate}
ForeignHandle == [name |-> "a", uuid |-> 0]

SoloNext ==
    \/ handles = <<>> /\ \E def \in Definitions, be \in SoloBackends : Spawn(def, be)
    \/ sends < MaxSoloSends
       /\ \E h \in DOMAIN command_emitters \cup {ForeignHandle}, cmd \in SoloCommands :
              Send(h, cmd)
    \/ Recv
    \/ \E id \in AgentIds : AgentTask(id)
    \/ \E id \in AgentIds : AgentDisconnected(id)

SoloSpec == Init /\ [][SoloNext]_vars

\* The same, with recv called again and again: the select! of recv picks at
\* random among the branches that are ready, so a finished task's branch is
\* taken in the end.
SoloFairSpec == SoloSpec /\ \A id \in AgentIds : WF_vars(RecvThread(id))

\* One agent whose blocking thread keeps running, with recv called again and
\* again: the task takes its next step, and a ready branch of recv's select!
\* is taken, in the end.
TurnFairSpec ==
    SoloSpec /\ \A id \in AgentIds :
        /\ WF_vars(AgentTask(id)) /\ WF_vars(AgentDisconnected(id))
        /\ WF_vars(RecvEvent(id)) /\ WF_vars(RecvThread(id))

\* Several agents with recv called again and again: a wait that is ready,
\* with an event or with the closing of its channel, is taken in the end.
ClosedFairSpec == FairSpec /\ \A id \in AgentIds : WF_vars(RecvClosed(id))

\* One agent, one user message, and every stream of a few events.
AsmAlphabet ==
    {EvPing, EvMessageStart, EvMessageStop,
     EvMessageDelta(Some("EndTurn"), None), EvMessageDelta(None, Some("END")),
     EvMessageDelta(Some("MaxTokens"), Some("STOP")),
     EvContentBlockStart(0, TextBlock("")), EvContentBlockStart(0, ToolUseBlock("t1", "f", "")),
     EvContentBlockStart(1, TextBlock("")),
     EvTextDelta(0, "Hi!"), EvInputJsonDelta(0, "{}"), EvTextDelta(1, "yo"),
     EvTextDelta(0, "?"), EvInputJsonDelta(0, "}"),
     EvContentBlockStop(0), EvContentBlockStop(1)}

AsmStreams == UNION {[1..k -> AsmAlphabet] : k \in 0..MaxStreamLen}
AsmBackends == {Backend(200, TextBody(""), events, "eos") : events \in AsmStreams}

AsmNext ==
    \/ handles = <<>> /\ \E def \in Definitions, be \in AsmBackends : Spawn(def, be)
    \/ sends < 1 /\ \E h \in DOMAIN command_emitters, t \in Texts : Send(h, UserMessage(t))
    \/ Recv
    \/ \E id \in AgentIds : AgentTask(id)

AsmSpec == Init /\ [][AsmNext]_vars

\* A MessageStream alone: every stream of a few frames, cut off anywhere, over
\* a transport that hands the bytes out in chunks of any sizes.
SsePayloadSeqs == UNION {[1..k -> SsePayloads] : k \in 0..MaxFrames}
SseSources ==
    UNION {{SubSeq(Wire(ps), 1, n) : n \in 0..Len(Wire(ps))} : ps \in SsePayloadSeqs}

SseInit ==
    /\ RuntimeInit
    /\ sse \in {SseOpen(bytes, tail) : bytes \in SseSources, tail \in {"eos", "error"}}

SseNext ==
    \/ SseRecv
    \/ SseLine
    \/ \E n \in 1..(MaxFrames * FrameLen) : SseChunk(n)
    \/ SseEnd

SseSpec == SseInit /\ [][SseNext]_vars

(* --------------------------------------------------------------- claims *)
\* The agents spawn_agent has been called for.
Spawned == 1..Len(handles)

\* C1: for every agent, under any interleaving with other agents, the events
\* Runtime.recv returns from that agent's channel come in exactly the order in
\* which its task sent them: the i-th event returned is the i-th event sent.
C1_EventsInOrder ==
    \A id \in AgentIds : \A i \in 1..Len(delivered[id]) : delivered[id][i].n = i

\* Two agents' events were returned, several of each.
C1_Witness ==
    /\ MaxAgents >= 2
    /\ Len(delivered[1]) >= 2
    /\ Len(delivered[2]) >= 2

\* C2: no event is dropped: as long as recv keeps being called, every event
\* an agent's task sends on its event channel is eventually returned by
\* Runtime.recv, and none is returned twice; this includes the events sent
\* just before the task ends. (No event is returned twice, and again and
\* again the events returned are all the events sent so far.)
C2_NoEventLost ==
    /\ [](\A id \in AgentIds : \A i, j \in 1..Len(delivered[id]) :
             i # j => delivered[id][i].n # delivered[id][j].n)
    /\ \A id \in AgentIds :
          []<>(/\ Len(delivered[id]) = sentCount[id]
               /\ \A n \in 1..sentCount[id] : \E i \in 1..Len(delivered[id]) :
                      delivered[id][i].n = n)

\* A task has ended with an error right after relaying events, and all of its
\* events were returned.
C2_Witness ==
    \E id \in Spawned :
        /\ pc[id] = "done"
        /\ taskResult[id].tag = "Err"
        /\ sentCount[id] >= 2
        /\ Len(delivered[id]) = sentCount[id]

\* C3, as claimed: once an agent was spawned, Runtime.recv never again returns
\* NoRunningAgents.
C3_NeverNoAgentsAfterSpawn ==
    [][~(handles # <<>> /\ RecvNoRunningAgents)]_vars

\* C3, amended: once an agent was spawned, Runtime.recv returns
\* NoRunningAgents only when every spawned agent's task has ended, its
\* Completed/Terminated event has been returned, and all of its events have
\* been returned.
C3_NoAgentsOnlyWhenAllEnded ==
    [][(handles # <<>> /\ RecvNoRunningAgents) =>
          \A id \in Spawned :
              /\ pc[id] = "done"
              /\ reaped[id] # None
              /\ Len(delivered[id]) = sentCount[id]]_vars

\* recv has returned NoRunningAgents after every spawned agent had ended.
C3_Witness ==
    /\ handles # <<>>
    /\ \A id \in Spawned : reaped[id] # None
    /\ lastRecv = Err(ErrNoRunningAgents)

\* C4: on a Runtime on which spawn_agent was never called, Runtime.recv
\* returns at once, and what it returns is the error NoRunningAgents.
C4_RecvFailsBeforeSpawn ==
    handles = <<>> =>
        /\ ENABLED RecvNoRunningAgents
        /\ \A id \in AgentIds :
              ~ENABLED RecvThread(id) /\ ~ENABLED RecvEvent(id) /\ ~ENABLED RecvClosed(id)
        /\ lastRecv \in {None, Err(ErrNoRunningAgents)}

\* recv was called before any spawn.
C4_Witness == handles = <<>> /\ lastRecv = Err(ErrNoRunningAgents)

\* The block a ContentBlockStart opened, with the deltas for its index that
\* follow it (up to the next start of that index) appended.
RECURSIVE Accumulated(_, _, _, _)
Accumulated(block, index, events, pos) ==
    IF pos > Len(events) THEN block
    ELSE LET e == events[pos] IN
         IF e.type = "ContentBlockStart" /\ e.index = index THEN block
         ELSE IF e.type = "ContentBlockDelta" /\ e.index = index
         THEN Accumulated(IF block.kind = "Text"
                          THEN [block EXCEPT !.text = @ \o e.text]
                          ELSE [block EXCEPT !.input = @ \o e.partial_json],
                          index, events, pos + 1)
         ELSE Accumulated(block, index, events, pos + 1)

\* The content of the assistant message the agent's last completed turn appended.
LastAssistantContent(id) ==
    LET ms == state[id].messages
        last == CHOOSE k \in 1..Len(ms) :
                    ms[k].role = "assistant" /\ \A j \in (k + 1)..Len(ms) : ms[j].role # "assistant"
    IN  ms[last].content

\* C5: the finalized message of a turn holds every block a ContentBlockStart
\* opened during the turn, with its accumulated text or input: a
\* ContentBlockStop removes no content.
C5_StopKeepsContent ==
    \A id \in Spawned :
        (turns[id] >= 1 /\ pc[id] = "commands") =>
            LET events == backend[id].events
                content == LastAssistantContent(id)
            IN  \A k \in 1..Len(events) :
                    events[k].type = "ContentBlockStart" =>
                        \E j \in 1..Len(content) :
                            content[j] = Accumulated(events[k].content_block, events[k].index,
                                                     events, k + 1)

\* C6: the blocks of every finalized message are in ascending order of index.
C6_ContentAscending ==
    \A id \in AgentIds : \A i, j \in 1..Len(finalOrder[id]) :
        i < j => finalOrder[id][i] < finalOrder[id][j]

\* The events recv returned from the agent's channel, state dumps left out.
Relayed(id) == SelectSeq(delivered[id], LAMBDA x : x.ev.variant # "StateDump")

\* C7: scenario A: with the backend streaming MessageStart, ContentBlockStart
\* {0, Text ""}, ContentBlockDelta {0, Text "Hi!"}, ContentBlockStop {0},
\* MessageDelta {EndTurn}, MessageStop, recv returns those six events in order
\* and then a Message whose content is [Text "Hi!"] and stop_reason EndTurn.
C7_ScenarioA ==
    \A id \in Spawned :
        (backend[id] = ScenarioABackend /\ Len(Relayed(id)) >= 7) =>
            /\ \A k \in 1..6 : Relayed(id)[k].ev = AgentEventFrom(ScenarioAEvents[k])
            /\ Relayed(id)[7].ev =
                  AgMessage([MessageShell EXCEPT !.content = <<TextBlock("Hi!")>>,
                                                 !.stop_reason = Some("EndTurn")])

\* The step in which an agent handles a DumpState command, and the snapshot
\* it sends.
DumpStep(id) ==
    /\ pc[id] = "commands"
    /\ cmdq[id] # <<>>
    /\ Head(cmdq[id]) = DumpState
    /\ sentCount'[id] = sentCount[id] + 1
Snapshot(id) == evq'[id][Len(evq'[id])].ev.state

\* C8, as claimed: the history of every snapshot has two messages per
\* completed turn, and one more if its last message is an unanswered user
\* message.
C8_DumpTwoPerTurn ==
    [][\A id \in AgentIds :
          DumpStep(id) =>
              LET ms == Snapshot(id).messages IN
              Len(ms) = 2 * turns[id]
                        + (IF Len(ms) > 0 /\ ms[Len(ms)].role = "user" THEN 1 ELSE 0)]_vars

\* C8, amended: the history of every snapshot has one message per completed
\* turn and one per UserMessage command handled so far.
C8_DumpCountsMessages ==
    [][\A id \in AgentIds :
          DumpStep(id) => Len(Snapshot(id).messages) = turns[id] + userMsgs[id]]_vars

\* A snapshot with two user messages in a row was returned.
C8_Witness ==
    \E id \in Spawned : \E k \in 1..Len(delivered[id]) :
        /\ delivered[id][k].ev.variant = "StateDump"
        /\ Len(delivered[id][k].ev.state.messages) = 2
        /\ \A j \in 1..2 : delivered[id][k].ev.state.messages[j].role = "user"

\* C9: scenario C: when the provider answers the call with a non-2xx status
\* and the body {"error":{"type":"overloaded_error","message":"busy"}}, the
\* task ends and recv returns Terminated("overloaded_error - busy").
C9_ScenarioC ==
    \A id \in Spawned :
        (backend[id] = OverloadedBackend /\ backendCalls[id] >= 1) =>
            /\ pc[id] = "done"
            /\ reaped[id] \in {None, Some(AgTerminated("overloaded_error - busy"))}

\* C10: scenario B: an agent that has handled Pause makes no backend call
\* before it has handled an Unpause, also when a user message is the last
\* entry of its history.
C10_NoCallWhilePaused ==
    [][\A id \in AgentIds :
          backendCalls'[id] # backendCalls[id] => lastPauseCmd[id] # "Pause"]_vars

\* Pause and then UserMessage were handled, the queue is empty, and the agent
\* has made no call.
C10_Witness ==
    \E id \in Spawned :
        /\ lastPauseCmd[id] = "Pause"
        /\ pc[id] = "commands"
        /\ cmdq[id] = <<>>
        /\ Len(state[id].messages) = 1
        /\ state[id].messages[1].role = "user"
        /\ backendCalls[id] = 0

\* C11: Runtime.send(handle, Terminate) for a registered handle returns to the
\* caller, with success or with an error value, and the Runtime stays usable:
\* the caller is not aborted.
C11_TerminateAccepted ==
    [][\A h \in DOMAIN command_emitters :
          Send(h, Terminate) => lastSend'.tag \in {"Ok", "Err"} /\ ~RuntimeDropped']_vars

\* What the end of the agent's task is to be reported as.
EndEvent(id) ==
    IF taskResult[id] = Ok("SUCCESS")
    THEN AgCompleted(HandleOf(id))
    ELSE AgTerminated(ErrorText(ThreadOutput(id).err))

\* C12: every end of an agent's task becomes exactly one event returned by
\* Runtime.recv: Completed(handle) when the task ended through Exit,
\* Terminated(reason) with the error's text when it ended with an error. (The
\* event is returned for an ended task only, once, it is the right one, it is
\* never replaced, and as long as the caller keeps calling recv it comes.)
C12_EndIsOneEvent ==
    /\ [][\A id \in AgentIds :
             /\ RecvThread(id) =>
                    /\ pc[id] = "done"
                    /\ reaped[id] = None
                    /\ taskResult[id] # Ok("FAILURE")
                    /\ lastRecv' = Ok(EndEvent(id))
                    /\ reaped'[id] = Some(EndEvent(id))
             /\ reaped[id] # None => reaped'[id] = reaped[id]]_vars
    /\ \A id \in AgentIds :
          (pc[id] = "done") ~> (reaped[id] # None \/ RuntimeDropped)

\* A task ended because the stream gave no message, and recv returned the
\* Terminated event with that error's text.
C12_Witness ==
    \E id \in Spawned :
        /\ taskResult[id] = Err(ErrNoMessageReceived(HandleOf(id)))
        /\ reaped[id] =
              Some(AgTerminated("No message received from backend for agent: a"))

\* The agent's task has ended with an error or a panic.
Failed(id) == taskResult[id].tag \in {"Err", "Panic"}
\* The agent's task is running.
Live(id) == pc[id] \in {"commands", "stream"}
\* Everything that belongs to one agent.
AgentView(id) ==
    <<pc[id], taskResult[id], state[id], cmdq[id], evq[id], stream[id], message[id],
      blocks[id], delivered[id], reaped[id], id \in thread_join_set, id \in recv_join_set>>

\* C13: failure isolation: the step in which one agent's task fails changes
\* nothing of any other agent; next to a failed agent a live agent still gets
\* the commands sent to it and recv still returns its events; and an agent
\* whose own backend answers well never ends with an error.
C13_FailureIsolated ==
    /\ [][\A i, j \in AgentIds :
             (i # j /\ ~Failed(i) /\ Failed(i)') =>
                 AgentView(j)' = AgentView(j) /\ command_emitters' = command_emitters]_vars
    /\ [][\A i, j \in AgentIds : \A cmd \in Commands :
             (i # j /\ Failed(i) /\ Live(j) /\ Send(HandleOf(j), cmd)) =>
                 lastSend' = Ok("unit") /\ cmdq'[j] = Append(cmdq[j], cmd)]_vars
    /\ [](\A i, j \in AgentIds :
             (i # j /\ Failed(i) /\ j \in Spawned /\ evq[j] # <<>>) => ENABLED RecvEvent(j))
    /\ [](\A j \in Spawned : backend[j] = ShortBackend => ~Failed(j))

\* The first agent's task has failed and recv has said so; the second agent
\* has taken a command, completed a turn, and recv has returned its events.
C13_Witness ==
    /\ MaxAgents >= 2
    /\ Failed(1) /\ reaped[1] # None
    /\ pc[2] = "commands" /\ turns[2] = 1 /\ userMsgs[2] = 1
    /\ sentCount[2] = 3 /\ Len(delivered[2]) = 3

\* C14: Runtime.send to a handle spawn_agent never returned always fails with
\* AgentNotFound, and leaves every command queue and the Runtime's
\* bookkeeping as they were.
C14_SendToUnknownFails ==
    [][\A cmd \in SoloCommands :
          Send(ForeignHandle, cmd) =>
              /\ lastSend' = Err(ErrAgentNotFound(ForeignHandle))
              /\ UNCHANGED <<rtVars, cmdq>>]_vars

\* C15: Runtime.send to the handle of an agent whose task has ended fails
\* with AgentNotFound, returned to the sender, and changes nothing of any
\* agent.
C15_SendToEndedFails ==
    [][\A id \in AgentIds : \A cmd \in SoloCommands :
          (id \in Spawned /\ pc[id] = "done" /\ Send(HandleOf(id), cmd)) =>
              /\ lastSend' = Err(ErrAgentNotFound(HandleOf(id)))
              /\ UNCHANGED <<rtVars, cmdq, evq, pc, taskResult, state>>]_vars

\* Every event the agent's task has sent, returned by recv or still queued.
AllSent(id) == delivered[id] \o evq[id]
\* Those of them that relay a backend event.
Relays(id) == SelectSeq(AllSent(id), LAMBDA x : x.ev.variant \notin {"Message", "StateDump"})

\* The AgentEvent is the backend event, variant and content.
SameEvent(a, e) ==
    /\ a.variant = e.type
    /\ e.type = "MessageStart" => a.message = e.message
    /\ e.type = "MessageDelta" =>
          a.delta.stop_reason = e.stop_reason /\ a.delta.stop_sequence = e.stop_sequence
    /\ e.type = "ContentBlockStart" =>
          a.index = e.index /\ a.content_block = e.content_block
    /\ e.type = "ContentBlockDelta" =>
          /\ a.kind = e.kind /\ a.index = e.index
          /\ e.kind = "Text" => a.text = e.text
          /\ e.kind = "InputJson" => a.partial_json = e.partial_json
    /\ e.type = "ContentBlockStop" => a.index = e.index

\* The assembler after the first k events of a stream.
RECURSIVE AsmAfter(_, _)
AsmAfter(events, k) ==
    IF k = 0 THEN AsmOk(None, EmptyMap)
    ELSE LET before == AsmAfter(events, k - 1) IN
         IF before.ok THEN AsmStep(before.message, before.blocks, events[k]) ELSE before

\* C16: every event the backend stream yields during a turn is relayed
\* unchanged, whatever the assembler makes of it: the relays are the stream's
\* events in order, all that were taken from the stream so far; a Ping is
\* relayed; and when the assembler rejects an event, that event is the last
\* relay.
C16_EveryEventRelayed ==
    \A id \in Spawned :
        LET events == backend[id].events
            relays == Relays(id)
        IN  /\ Len(relays) <= Len(events)
            /\ \A k \in 1..Len(relays) : SameEvent(relays[k].ev, events[k])
            /\ pc[id] = "stream" => Len(relays) = Len(events) - Len(stream[id].events)
            /\ turns[id] >= 1 => Len(relays) = Len(events)
            /\ taskResult[id] = Err(ErrUnexpectedEvent(HandleOf(id))) =>
                  /\ Len(relays) >= 1
                  /\ AsmAfter(events, Len(relays) - 1).ok
                  /\ ~AsmAfter(events, Len(relays)).ok

\* A stream began with a Ping and then broke the protocol with a text delta
\* for a block that was never started: both events were relayed.
C16_Witness ==
    \E id \in Spawned :
        /\ taskResult[id] = Err(ErrUnexpectedEvent(HandleOf(id)))
        /\ Len(delivered[id]) = 2
        /\ delivered[id][1].ev = [variant |-> "Ping"]
        /\ delivered[id][2].ev =
              [variant |-> "ContentBlockDelta", kind |-> "Text", index |-> 0, text |-> "Hi!"]

\* C17: no command is taken while a backend stream is being processed: during
\* a turn the command queue only grows and the paused flag and the user
\* messages stay as they are, and the turn is left only at the end of the
\* stream or with an error; Exit, Pause, DumpState and UserMessage sent
\* meanwhile wait for the drain loop.
C17_NoCommandMidStream ==
    [][\A id \in AgentIds :
          pc[id] = "stream" =>
              /\ Len(cmdq'[id]) >= Len(cmdq[id])
              /\ SubSeq(cmdq'[id], 1, Len(cmdq[id])) = cmdq[id]
              /\ state'[id].paused = state[id].paused
              /\ userMsgs'[id] = userMsgs[id]
              /\ state'[id].messages # state[id].messages => stream[id].events = <<>>
              /\ pc'[id] = "commands" => stream[id].events = <<>> /\ turns'[id] = turns[id] + 1
              /\ pc'[id] = "done" => taskResult'[id].tag = "Err"]_vars

\* An Exit is queued while the task is in the middle of a stream.
C17_Witness ==
    \E id \in Spawned :
        /\ pc[id] = "stream"
        /\ stream[id].events # <<>>
        /\ Len(stream[id].events) < Len(backend[id].events)
        /\ cmdq[id] # <<>>
        /\ Head(cmdq[id]) = Exit

\* The position in its backend's stream of the event the agent takes next.
NextPos(id) == Len(backend[id].events) - Len(stream[id].events) + 1

\* Before position k, the stream started a block of this kind at the index,
\* and did not start the index again.
StartedAs(events, k, index, kind) ==
    \E j \in 1..(k - 1) :
        /\ events[j].type = "ContentBlockStart"
        /\ events[j].index = index
        /\ events[j].content_block.kind = kind
        /\ \A l \in (j + 1)..(k - 1) :
              ~(events[l].type = "ContentBlockStart" /\ events[l].index = index)

\* The agent's task has sent a Message event.
SentMessage(id) == \E k \in 1..Len(AllSent(id)) : AllSent(id)[k].ev.variant = "Message"

\* C18: a ContentBlockDelta of kind Text for an index whose block was started
\* as ToolUse fails with UnexpectedEvent, and so does a delta of kind
\* InputJson for an index whose block was started as Text; the turn ends there
\* and no Message event is sent.
C18_DeltaOfWrongKindFails ==
    /\ [][\A id \in AgentIds :
             LET events == backend[id].events
                 k == NextPos(id)
             IN  (/\ AgentStreamEvent(id)
                  /\ events[k].type = "ContentBlockDelta"
                  /\ \/ events[k].kind = "Text" /\ StartedAs(events, k, events[k].index, "ToolUse")
                     \/ events[k].kind = "InputJson"
                        /\ StartedAs(events, k, events[k].index, "Text"))
                 => /\ pc'[id] = "done"
                    /\ taskResult'[id] = Err(ErrUnexpectedEvent(HandleOf(id)))
                    /\ state'[id] = state[id]
                    /\ ~SentMessage(id)']_vars
    /\ [](\A id \in Spawned :
             taskResult[id] = Err(ErrUnexpectedEvent(HandleOf(id))) => ~SentMessage(id))

\* A text delta for a ToolUse block ended the turn with UnexpectedEvent.
C18_Witness ==
    \E id \in Spawned :
        /\ backend[id].events =
              <<EvMessageStart, EvContentBlockStart(0, ToolUseBlock("t1", "f", "")),
                EvTextDelta(0, "Hi!")>>
        /\ sentCount[id] = 3
        /\ taskResult[id] = Err(ErrUnexpectedEvent(HandleOf(id)))

\* C19: a MessageStart that follows an earlier MessageStart of the same
\* stream with no MessageStop between them fails with UnexpectedEvent.
C19_SecondMessageStartFails ==
    [][\A id \in AgentIds :
          LET events == backend[id].events
              k == NextPos(id)
          IN  (/\ AgentStreamEvent(id)
               /\ events[k].type = "MessageStart"
               /\ \E j \in 1..(k - 1) :
                      /\ events[j].type = "MessageStart"
                      /\ \A l \in (j + 1)..(k - 1) : events[l].type # "MessageStop")
              => /\ pc'[id] = "done"
                 /\ taskResult'[id] = Err(ErrUnexpectedEvent(HandleOf(id)))]_vars

\* A second MessageStart, a Ping after the first, ended the turn.
C19_Witness ==
    \E id \in Spawned :
        /\ backend[id].events = <<EvMessageStart, EvPing, EvMessageStart>>
        /\ sentCount[id] = 3
        /\ taskResult[id] = Err(ErrUnexpectedEvent(HandleOf(id)))

\* C20: a ContentBlockStop for an index the stream never started is a no-op:
\* no error, and the message in progress, the blocks in progress and the
\* agent's history are as before.
C20_StopOfUnknownIndexIsNoOp ==
    [][\A id \in AgentIds :
          LET events == backend[id].events
              k == NextPos(id)
          IN  (/\ AgentStreamEvent(id)
               /\ events[k].type = "ContentBlockStop"
               /\ \A j \in 1..(k - 1) :
                      ~(events[j].type = "ContentBlockStart"
                        /\ events[j].index = events[k].index))
              => /\ pc'[id] = "stream"
                 /\ taskResult'[id] = Running
                 /\ message'[id] = message[id]
                 /\ blocks'[id] = blocks[id]
                 /\ state'[id] = state[id]]_vars

\* A stop for index 1 was taken while only block 0 was in progress.
C20_Witness ==
    \E id \in Spawned :
        /\ backend[id].events =
              <<EvMessageStart, EvContentBlockStart(0, TextBlock("")), EvContentBlockStop(1)>>
        /\ pc[id] = "stream"
        /\ stream[id].events = <<>>
        /\ DOMAIN blocks[id] = {0}

\* The events of the whole frames of a byte stream, in order: the data of the
\* k-th frame is the byte before its last two newlines.
FrameEvents(bytes) ==
    [k \in 1..(Len(bytes) \div FrameLen) |-> FromJson(<<bytes[k * FrameLen - 2]>>).val]

\* C21: chunk-boundary invariance of the frame parser: however the transport
\* cuts a well-formed byte stream into chunks, in the middle of a line or
\* between the lines of a frame, the successive recv calls return the events
\* of the stream's whole frames, in order, and then the end of the stream.
C21_ChunkInvariance ==
    sse.pc # "none" =>
        LET expected == FrameEvents(sse.source) IN
        /\ Len(sse.out) <= Len(expected) + 1
        /\ \A k \in 1..Len(sse.out) : k <= Len(expected) => sse.out[k] = Ok(expected[k])
        /\ Len(sse.out) = Len(expected) + 1 =>
              /\ sse.pc = "ended"
              /\ sse.out[Len(sse.out)] = IF sse.tail = "eos" THEN Ok(None) ELSE Err("reqwest")
        /\ sse.pc = "ended" => Len(sse.out) = Len(expected) + 1

\* Two frames came in chunks that ended in the middle of a line, the last
\* bytes of the first frame and the first of the second in one chunk; recv
\* returned both events and then the end of the stream.
C21_Witness ==
    /\ sse.pc = "ended"
    /\ sse.midline
    /\ sse.source = Wire(<<"p", "q">>)
    /\ sse.out = <<Ok(Some(EvPing)), Ok(Some(EvMessageStop)), Ok(None)>>

\* C22: the runtime holds at most one outstanding next-event wait per agent:
\* an agent's event receiver is owned by exactly one wait of recv_join_set
\* from spawn on, each delivered event replacing the finished wait by one new
\* wait, and by none once recv has observed the agent's channel closed, after
\* which no wait for that agent is ever armed again.
C22_OneWaitPerAgent ==
    /\ [](\A id \in AgentIds :
            /\ waits[id] <= 1
            /\ waits[id] = 1 <=> id \in recv_join_set
            /\ waits[id] = 1 => id \in Spawned
            /\ (id \in Spawned /\ waits[id] = 0) =>
                  /\ EventSenderDropped(id)
                  /\ evq[id] = <<>>)
    /\ [][\A id \in AgentIds : (id \in Spawned /\ waits[id] = 0) => waits'[id] = 0]_vars

\* One agent has had events delivered and its wait is armed again; the other's
\* channel was observed closed and no wait for it is left.
C22_Witness ==
    \E id, other \in AgentIds :
        /\ Len(delivered[id]) >= 2 /\ waits[id] = 1 /\ id \in recv_join_set
        /\ other \in Spawned /\ waits[other] = 0 /\ other \notin recv_join_set
        /\ lastRecv = Err(ErrAgentNotFound(HandleOf(other)))

\* C23: every spawn returns a handle distinct from all earlier ones, also when
\* the agents' names are equal, and a command sent with a handle is appended
\* to the queue of the agent that handle was returned for and to no other
\* agent's queue.
C23_HandleRoutesToItsAgent ==
    /\ [](\A i, j \in Spawned : i # j => handles[i] # handles[j])
    /\ [](\A h \in DOMAIN command_emitters :
             command_emitters[h] \in Spawned /\ HandleOf(command_emitters[h]) = h)
    /\ [][\A h \in DOMAIN command_emitters, cmd \in Commands :
             (Send(h, cmd) /\ lastSend' = Ok("unit")) =>
                 \A id \in AgentIds :
                     cmdq'[id] = IF id \in Spawned /\ HandleOf(id) = h
                                 THEN Append(cmdq[id], cmd)
                                 ELSE cmdq[id]]_vars

\* Two agents of the same name; the second has taken a user message sent with
\* its handle, the first has taken none.
C23_Witness ==
    /\ Len(handles) = 2
    /\ handles[1].name = handles[2].name
    /\ handles[1] # handles[2]
    /\ userMsgs[2] = 1 /\ userMsgs[1] = 0
    /\ cmdq[1] = <<>>

\* C24: an agent hands a request to the backend only in a step in which its
\* command queue is empty, it is not paused and the last history entry has
\* role user; the request's messages are the complete history at that moment,
\* and the history only ever grows at its end, so they are oldest first.
C24_TurnStartConditions ==
    [][\A id \in AgentIds :
         /\ backendCalls'[id] # backendCalls[id] =>
               /\ cmdq[id] = <<>>
               /\ ~state[id].paused
               /\ Len(state[id].messages) > 0
               /\ state[id].messages[Len(state[id].messages)].role = "user"
               /\ lastRequest'[id].tag = "Some"
               /\ lastRequest'[id].val.messages = state[id].messages
         /\ backendCalls'[id] = backendCalls[id] => lastRequest'[id] = lastRequest[id]
         /\ id \in Spawned =>
               /\ Len(state'[id].messages) >= Len(state[id].messages)
               /\ SubSeq(state'[id].messages, 1, Len(state[id].messages)) = state[id].messages]_vars

\* A second turn: its request carried the first user message, the assistant's
\* answer and the second user message, in that order.
C24_Witness ==
    \E id \in Spawned :
        /\ backendCalls[id] = 2
        /\ lastRequest[id].tag = "Some"
        /\ Len(lastRequest[id].val.messages) = 3
        /\ [k \in 1..3 |-> lastRequest[id].val.messages[k].role] = <<"user", "assistant", "user">>

\* C25: the system prompt and the temperature of every request an agent sends
\* are those of the AgentDefinition that was passed to spawn for it, and the
\* AgentState a DumpState reports (the agent's state) carries that definition.
C25_DefinitionOfSpawnUsed ==
    \A id \in Spawned :
        /\ state[id].definition = spawnedWith[id].val
        /\ lastRequest[id].tag = "Some" =>
              /\ lastRequest[id].val.system = Some(spawnedWith[id].val.prompt)
              /\ lastRequest[id].val.temperature = Some(spawnedWith[id].val.temperature)

\* The Message events and the assistant entries among a sequence.
MessageEvents(sent) == SelectSeq(sent, LAMBDA x : x.ev.variant = "Message")
AssistantEntries(history) == SelectSeq(history, LAMBDA m : m.role = "assistant")

\* C26: each successfully completed turn appends exactly one assistant
\* message to the history and sends exactly one Message event; the two have
\* the same content; and the Message event is sent when every event of the
\* turn's stream has been relayed, after all of them. (Message events are sent
\* by completed turns only, one each.)
C26_OneMessagePerTurn ==
    /\ [](\A id \in Spawned : Len(MessageEvents(AllSent(id))) = turns[id])
    /\ [][\A id \in AgentIds :
             turns'[id] # turns[id] =>
                 LET history == state'[id].messages
                     last == history[Len(history)]
                     e == evq'[id][Len(evq'[id])]
                 IN  /\ turns'[id] = turns[id] + 1
                     /\ history = Append(state[id].messages, last)
                     /\ last.role = "assistant"
                     /\ evq'[id] = Append(evq[id], e)
                     /\ e.ev.variant = "Message"
                     /\ e.ev.message.content = last.content
                     /\ stream[id].events = <<>>
                     /\ \A k \in 1..Len(AllSent(id)) : AllSent(id)[k].n < e.n]_vars

\* Two turns completed: two assistant entries in the history, two Message
\* events sent, the second after the relays of the second turn.
C26_Witness ==
    \E id \in Spawned :
        /\ turns[id] = 2
        /\ Len(AssistantEntries(state[id].messages)) = 2
        /\ Len(MessageEvents(AllSent(id))) = 2
        /\ AllSent(id)[Len(AllSent(id))].ev.variant = "Message"
        /\ Len(Relays(id)) > 2

\* The stream has yielded a MessageStart before position k.
StartSeen(events, k) == \E j \in 1..(k - 1) : events[j].type = "MessageStart"

\* C27: when the backend stream ends without any MessageStart having been
\* received, the turn fails with the error NoMessageReceived, distinct from
\* every other error: no assistant message is appended, no Message event is
\* sent, the agent's task ends, and the Terminated event recv returns for it
\* carries that error's text.
C27_NoMessageReceived ==
    /\ [][\A id \in AgentIds :
             (/\ AgentStreamEnd(id)
              /\ stream[id].tail = "eos"
              /\ ~StartSeen(backend[id].events, NextPos(id)))
             => /\ pc'[id] = "done"
                /\ taskResult'[id] = Err(ErrNoMessageReceived(HandleOf(id)))
                /\ taskResult'[id].err.kind
                      \notin {"UnexpectedEvent", "EventReceiverClosed", "CustomError",
                              "AgentNotFound", "NoRunningAgents", "JoinFailed"}
                /\ state'[id] = state[id]
                /\ evq'[id] = evq[id]
                /\ ~SentMessage(id)']_vars
    /\ [](\A id \in Spawned :
             (taskResult[id].tag = "Err" /\ taskResult[id].err.kind = "NoMessageReceived"
              /\ reaped[id] # None)
             => reaped[id] =
                   Some(AgTerminated("No message received from backend for agent: a")))

\* A stream of pings only has ended; the task failed with NoMessageReceived
\* and recv has returned the Terminated event for it.
C27_Witness ==
    \E id \in Spawned :
        /\ backend[id].events = <<EvPing, EvPing>>
        /\ sentCount[id] = 2
        /\ state[id].messages = <<InputMessage("user", <<TextBlock("hi")>>)>>
        /\ reaped[id] = Some(AgTerminated("No message received from backend for agent: a"))

\* The positions before k of the MessageDelta events that carry the field,
\* and the value the field has by last-write-wins: that of the latest such
\* delta, or the one of the MessageStart if there is none.
Carriers(events, k, field) ==
    {j \in 1..(k - 1) : events[j].type = "MessageDelta" /\ events[j][field].tag = "Some"}
LatestValue(events, k, field) ==
    LET js == Carriers(events, k, field)
        start == CHOOSE j \in 1..(k - 1) : events[j].type = "MessageStart"
    IN  IF js = {}
        THEN events[start].message[field]
        ELSE events[CHOOSE j \in js : \A l \in js : l <= j][field]

\* C28: MessageDelta merges last-write-wins per field: whatever MessageDelta
\* events an open message has received, its stop_reason and its stop_sequence
\* are those of the latest delta that carried the field, or those of the
\* MessageStart if no delta carried it; a delta in which a field is absent
\* leaves that field as it was.
C28_DeltaLastWriteWins ==
    /\ [](\A id \in AgentIds :
             (pc[id] = "stream" /\ message[id].tag = "Some") =>
                 /\ message[id].val.stop_reason =
                       LatestValue(backend[id].events, NextPos(id), "stop_reason")
                 /\ message[id].val.stop_sequence =
                       LatestValue(backend[id].events, NextPos(id), "stop_sequence"))
    /\ [][\A id \in AgentIds :
             LET e == backend[id].events[NextPos(id)] IN
             (/\ AgentStreamEvent(id)
              /\ e.type = "MessageDelta"
              /\ message[id].tag = "Some"
              /\ EventReceiverAlive(id))
             => /\ message'[id].tag = "Some"
                /\ e.stop_reason = None =>
                      message'[id].val.stop_reason = message[id].val.stop_reason
                /\ e.stop_sequence = None =>
                      message'[id].val.stop_sequence = message[id].val.stop_sequence]_vars

\* Two deltas after the start: the second carried only stop_reason, so
\* stop_reason is the second's and stop_sequence is still the first's.
C28_Witness ==
    \E id \in Spawned :
        /\ backend[id].events =
              <<EvMessageStart, EvMessageDelta(Some("MaxTokens"), Some("STOP")),
                EvMessageDelta(Some("EndTurn"), None)>>
        /\ pc[id] = "stream" /\ stream[id].events = <<>>
        /\ message[id].tag = "Some"
        /\ message[id].val.stop_reason = Some("EndTurn")
        /\ message[id].val.stop_sequence = Some("STOP")

\* C29: a MessageDelta or a MessageStop that arrives when the stream has not
\* yet yielded a MessageStart fails with UnexpectedEvent: the agent's task
\* ends with that error, nothing is appended to the history, no Message event
\* is sent, and the Terminated event recv returns carries the error's text.
C29_DeltaOrStopBeforeStartFails ==
    /\ [][\A id \in AgentIds :
             LET events == backend[id].events
                 k == NextPos(id)
             IN  (/\ AgentStreamEvent(id)
                  /\ events[k].type \in {"MessageDelta", "MessageStop"}
                  /\ ~StartSeen(events, k))
                 => /\ pc'[id] = "done"
                    /\ taskResult'[id] = Err(ErrUnexpectedEvent(HandleOf(id)))
                    /\ state'[id] = state[id]
                    /\ ~SentMessage(id)']_vars
    /\ [](\A id \in Spawned :
             (taskResult[id] = Err(ErrUnexpectedEvent(HandleOf(id))) /\ reaped[id] # None)
             => reaped[id] = Some(AgTerminated("Unexpected event received for agent a")))

\* A MessageDelta came second, after a Ping and before any MessageStart; it
\* was relayed, the task failed and recv returned the Terminated event.
C29_Witness ==
    \E id \in Spawned :
        /\ backend[id].events = <<EvPing, EvMessageDelta(Some("EndTurn"), None), EvMessageStart>>
        /\ sentCount[id] = 2
        /\ taskResult[id] = Err(ErrUnexpectedEvent(HandleOf(id)))
        /\ reaped[id] = Some(AgTerminated("Unexpected event received for agent a"))

\* C30: a ContentBlockStart whose index already has a block in progress fails
\* with UnexpectedEvent, which is fatal to the turn (the task ends, no
\* assistant message is appended, no Message event is sent) and is the reason
\* of the agent's Terminated event.
C30_DuplicateBlockStartFails ==
    /\ [][\A id \in AgentIds :
             LET events == backend[id].events
                 k == NextPos(id)
             IN  (/\ AgentStreamEvent(id)
                  /\ events[k].type = "ContentBlockStart"
                  /\ events[k].index \in DOMAIN blocks[id])
                 => /\ pc'[id] = "done"
                    /\ taskResult'[id] = Err(ErrUnexpectedEvent(HandleOf(id)))
                    /\ state'[id] = state[id]
                    /\ turns'[id] = turns[id]
                    /\ ~SentMessage(id)']_vars
    /\ [](\A id \in Spawned :
             (pc[id] = "done" /\ taskResult[id].tag = "Err" /\ reaped[id] # None)
             => reaped[id] = Some(AgTerminated(ErrorText(taskResult[id].err))))

\* Index 0 was started as a text block, received text, and was started again
\* as a tool use: the task failed there and the agent was reported terminated
\* for that reason.
C30_Witness ==
    \E id \in Spawned :
        /\ backend[id].events =
              <<EvContentBlockStart(0, TextBlock("")), EvTextDelta(0, "Hi!"),
                EvContentBlockStart(0, ToolUseBlock("t1", "f", ""))>>
        /\ sentCount[id] = 3
        /\ taskResult[id] = Err(ErrUnexpectedEvent(HandleOf(id)))
        /\ reaped[id] = Some(AgTerminated("Unexpected event received for agent a"))
        /\ state[id].messages = <<InputMessage("user", <<TextBlock("hi")>>)>>

\* C31: a ContentBlockDelta, Text or InputJson, for an index that has no
\* block in progress fails with UnexpectedEvent and ends the task; a Text
\* delta for a Text block in progress appends its text to the end of that
\* block's text, an InputJson delta for a ToolUse block in progress appends to
\* the end of that block's input, and every other block, and the message, are
\* left as they were.
C31_DeltaAppendsOrFails ==
    [][\A id \in AgentIds :
          LET e == backend[id].events[NextPos(id)]
              b == blocks[id]
          IN  (AgentStreamEvent(id) /\ e.type = "ContentBlockDelta") =>
                  /\ e.index \notin DOMAIN b =>
                        /\ pc'[id] = "done"
                        /\ taskResult'[id] = Err(ErrUnexpectedEvent(HandleOf(id)))
                        /\ state'[id] = state[id]
                  /\ (e.index \in DOMAIN b /\ e.kind = "Text" /\ b[e.index].kind = "Text") =>
                        /\ pc'[id] = "stream"
                        /\ message'[id] = message[id]
                        /\ blocks'[id] = [j \in DOMAIN b |->
                              IF j = e.index THEN TextBlock(b[j].text \o e.text) ELSE b[j]]
                  /\ (e.index \in DOMAIN b /\ e.kind = "InputJson" /\ b[e.index].kind = "ToolUse") =>
                        /\ pc'[id] = "stream"
                        /\ message'[id] = message[id]
                        /\ blocks'[id] = [j \in DOMAIN b |->
                              IF j = e.index
                              THEN ToolUseBlock(b[j].id, b[j].name, b[j].input \o e.partial_json)
                              ELSE b[j]]]_vars

\* Two text deltas for the text block at index 0: its text is the two pieces
\* in the order they came.
C31_Witness ==
    \E id \in Spawned :
        /\ backend[id].events =
              <<EvContentBlockStart(0, TextBlock("")), EvTextDelta(0, "Hi!"), EvTextDelta(0, "?")>>
        /\ pc[id] = "stream" /\ stream[id].events = <<>>
        /\ blocks[id] = MapInsert(EmptyMap, 0, TextBlock("Hi!?"))

\* C32: a freshly spawned agent has an empty history and is not paused; an
\* agent's AgentState changes only in steps of its own task (a command it
\* handles, or the end of its turn's stream); Pause, Unpause and DumpState
\* leave the history unchanged, DumpState leaves the whole state unchanged,
\* and UserMessage appends exactly one user message made of one Text block
\* with the command's text at the end of the history, and changes nothing else.
C32_StateChangesOnlyByOwnTask ==
    [][\A id \in AgentIds :
          LET cmd == ChannelHead(cmdq[id])
              st == state[id]
          IN  /\ (id \notin Spawned /\ id \in Spawned') =>
                    state'[id].messages = <<>> /\ state'[id].paused = FALSE
              /\ state'[id] # st => AgentCommand(id) \/ AgentStreamEnd(id)
              /\ AgentCommand(id) =>
                    /\ cmd.type \in {"Pause", "Unpause", "DumpState", "Exit"} =>
                          state'[id].messages = st.messages
                    /\ cmd.type = "DumpState" => state'[id] = st
                    /\ cmd.type = "Pause" => state'[id] = [st EXCEPT !.paused = TRUE]
                    /\ cmd.type = "Unpause" => state'[id] = [st EXCEPT !.paused = FALSE]
                    /\ cmd.type = "UserMessage" =>
                          state'[id] = [st EXCEPT !.messages =
                              Append(@, InputMessage("user", <<TextBlock(cmd.text)>>))]]_vars

\* Of two agents the first has handled Pause and a user message; the second,
\* freshly spawned, still has the empty, unpaused state.
C32_Witness ==
    /\ Len(handles) = 2
    /\ state[1] = [AgentStateDefault EXCEPT
                      !.paused = TRUE,
                      !.messages = <<InputMessage("user", <<TextBlock("hi")>>)>>]
    /\ lastPauseCmd[1] = "Pause" /\ userMsgs[1] = 1
    /\ state[2].messages = <<>> /\ state[2].paused = FALSE

\* C33: the Completed or Terminated event recv returns for an agent is the
\* last event recv returns for it: when it has been returned, every event the
\* agent sent on its event channel has been returned already, and none is
\* returned afterwards.
C33_EndEventIsLast ==
    \A id \in Spawned :
        reaped[id] # None => evq[id] = <<>> /\ Len(delivered[id]) = sentCount[id]

\* Every spawned agent but this one has had its end reported and has no wait
\* left: this one is the last agent.
LastAgent(id) ==
    \A other \in Spawned \ {id} : other \notin recv_join_set /\ other \notin thread_join_set

\* C34, as claimed: when recv returns AgentNotFound for the last agent, every
\* later recv call fails with NoRunningAgents.
C34_ClosedLastThenNoAgents ==
    [][\A id \in AgentIds : (RecvClosed(id) /\ LastAgent(id)) => NoAgents']_vars

\* C34, amended: once an agent's task has ended and all its buffered events
\* have been returned, recv returns AgentNotFound(handle) for it, once and
\* only then, and arms no further wait for it; when this was the last agent
\* and its Completed/Terminated event had been returned before, the recv
\* calls that follow fail with NoRunningAgents until another agent is spawned.
C34_ClosedOnceThenNoAgents ==
    /\ [][\A id \in AgentIds :
             /\ RecvClosed(id) =>
                   /\ pc[id] = "done"
                   /\ Len(delivered[id]) = sentCount[id]
                   /\ lastRecv' = Err(ErrAgentNotFound(HandleOf(id)))
                   /\ id \notin recv_join_set'
                   /\ (LastAgent(id) /\ reaped[id] # None) => NoAgents'
             /\ (id \in Spawned /\ id \notin recv_join_set) => id \notin recv_join_set'
             /\ (NoAgents /\ handles' = handles) => NoAgents']_vars
    /\ \A id \in AgentIds : []<>(pc[id] = "done" => id \notin recv_join_set)

\* Both agents have ended and were reported; recv has just returned
\* AgentNotFound for the second, and no agent is left.
C34_Witness ==
    /\ Len(handles) = 2
    /\ \A id \in Spawned : reaped[id] # None /\ Len(delivered[id]) = sentCount[id]
    /\ lastRecv = Err(ErrAgentNotFound(HandleOf(2)))
    /\ NoAgents

\* Exit is the next command the agent's task will take.
ExitIsNext(id) ==
    pc[id] = "commands" /\ cmdq[id] # <<>> /\ Head(cmdq[id]).type = "Exit"

\* C35: commands sent to one agent are processed by its task in the order they
\* were sent: the queue changes only by a send appending at its end or by the
\* task taking and handling its first command; while a turn is in progress
\* the queue only grows at its end, so what was sent then is processed, in
\* that order, once the turn has ended; and a UserMessage followed in the
\* queue by Exit is appended to the history, but from then on Exit stays the
\* next command until it ends the task, and no backend call is made.
C35_CommandsInOrder ==
    [][\A id \in AgentIds :
          LET q == cmdq[id] IN
          /\ cmdq'[id] # q =>
                \/ \E cmd \in SoloCommands : cmdq'[id] = Append(q, cmd)
                \/ /\ q # <<>> /\ cmdq'[id] = Tail(q)
                   /\ AgentCommand(id)
                   /\ state'[id] = HandleCommand(state[id], Head(q)).state
          /\ AgentCommand(id) => cmdq'[id] = Tail(q)
          /\ pc[id] = "stream" =>
                Len(cmdq'[id]) >= Len(q) /\ SubSeq(cmdq'[id], 1, Len(q)) = q
          /\ (AgentCommand(id) /\ Head(q).type = "UserMessage"
              /\ Len(q) >= 2 /\ q[2].type = "Exit") =>
                /\ state'[id].messages =
                      Append(state[id].messages, InputMessage("user", <<TextBlock(Head(q).text)>>))
                /\ ExitIsNext(id)'
          /\ ExitIsNext(id) =>
                /\ backendCalls'[id] = backendCalls[id]
                /\ ExitIsNext(id)' \/ taskResult'[id] = Ok("SUCCESS")
          /\ pc[id] = "done" => pc'[id] = "done" /\ backendCalls'[id] = backendCalls[id]]_vars

\* After one answered turn the task took a second user message and then Exit:
\* the message is in the history, the task completed, and the backend was
\* called once only.
C35_Witness ==
    \E id \in Spawned :
        /\ taskResult[id] = Ok("SUCCESS")
        /\ turns[id] = 1 /\ backendCalls[id] = 1 /\ userMsgs[id] = 2
        /\ [k \in 1..Len(state[id].messages) |-> state[id].messages[k].role]
              = <<"user", "assistant", "user">>

\* C36: in every reachable state an agent's history, if not empty, starts
\* with a user message and has no two adjacent assistant messages, and the
\* agent has made no more backend calls than it has processed UserMessage
\* commands.
C36_HistoryShape ==
    \A id \in Spawned :
        LET h == state[id].messages IN
        /\ h # <<>> => h[1].role = "user"
        /\ \A k \in 1..(Len(h) - 1) : ~(h[k].role = "assistant" /\ h[k + 1].role = "assistant")
        /\ backendCalls[id] <= userMsgs[id]

\* Two user messages were taken before the turn that answered them: one
\* backend call for two processed user messages.
C36_Witness ==
    \E id \in Spawned :
        /\ [k \in 1..Len(state[id].messages) |-> state[id].messages[k].role]
              = <<"user", "user", "assistant">>
        /\ userMsgs[id] = 2 /\ backendCalls[id] = 1

\* The stream holds a MessageStop.
StopSeen(events) == \E j \in 1..Len(events) : events[j].type = "MessageStop"

\* C37: a stream that ends after a MessageStart but with no MessageStop is a
\* successful turn: the assistant message, made of the blocks in progress, is
\* appended to the history and the Message event with the same content is
\* sent, the task goes on; and a MessageStop taken at that point would have
\* left the message and the blocks that the finalization reads as they are.
C37_EndWithoutStopSucceeds ==
    [][\A id \in AgentIds :
          LET events == backend[id].events
              history == state'[id].messages
              last == history[Len(history)]
              e == evq'[id][Len(evq'[id])]
          IN  (/\ AgentStreamEnd(id)
               /\ stream[id].tail = "eos"
               /\ StartSeen(events, Len(events) + 1)
               /\ ~StopSeen(events))
              => /\ pc'[id] = "commands"
                 /\ taskResult'[id] = Running
                 /\ turns'[id] = turns[id] + 1
                 /\ history = Append(state[id].messages, last)
                 /\ last = InputMessage("assistant",
                                        CollectValues(blocks[id], finalOrder'[id]))
                 /\ evq'[id] = Append(evq[id], e)
                 /\ e.ev = AgMessage([message[id].val EXCEPT !.content = last.content])
                 /\ AsmStep(message[id], blocks[id], EvMessageStop)
                       = AsmOk(message[id], blocks[id])]_vars

\* A stream of MessageStart, a text block and its text, and then the end: the
\* turn completed with the text as the assistant's answer.
C37_Witness ==
    \E id \in Spawned :
        /\ backend[id].events =
              <<EvMessageStart, EvContentBlockStart(0, TextBlock("")), EvTextDelta(0, "Hi!")>>
        /\ turns[id] = 1
        /\ pc[id] = "commands"
        /\ state[id].messages = <<InputMessage("user", <<TextBlock("hi")>>),
                                  InputMessage("assistant", <<TextBlock("Hi!")>>)>>
        /\ SentMessage(id)

\* The stream has yielded a MessageStop before position k.
StopSeenBefore(events, k) == \E j \in 1..(k - 1) : events[j].type = "MessageStop"

\* C38: within one stream a message opened by MessageStart stays open until
\* the stream ends. While the stream is read the message is open exactly if a
\* MessageStart has come; a MessageStop on an open message changes neither the
\* message nor the blocks; a second MessageStart fails with UnexpectedEvent,
\* also with a MessageStop in between; and after a MessageStop a MessageDelta
\* still sets the fields it carries and a ContentBlockStart for a free index
\* still puts its block among the blocks in progress.
C38_MessageStaysOpen ==
    /\ [](\A id \in AgentIds :
             pc[id] = "stream" =>
                 (message[id].tag = "Some" <=> StartSeen(backend[id].events, NextPos(id))))
    /\ [][\A id \in AgentIds :
             LET events == backend[id].events
                 k == NextPos(id)
                 e == events[k]
             IN  AgentStreamEvent(id) =>
                    /\ (e.type = "MessageStop" /\ StartSeen(events, k)) =>
                          /\ pc'[id] = "stream"
                          /\ message'[id] = message[id]
                          /\ blocks'[id] = blocks[id]
                    /\ (e.type = "MessageStart" /\ StartSeen(events, k)) =>
                          /\ pc'[id] = "done"
                          /\ taskResult'[id] = Err(ErrUnexpectedEvent(HandleOf(id)))
                    /\ (e.type = "MessageDelta" /\ StartSeen(events, k)
                        /\ StopSeenBefore(events, k)) =>
                          /\ pc'[id] = "stream"
                          /\ e.stop_reason # None =>
                                message'[id].val.stop_reason = e.stop_reason
                          /\ e.stop_sequence # None =>
                                message'[id].val.stop_sequence = e.stop_sequence
                    /\ (e.type = "ContentBlockStart" /\ StopSeenBefore(events, k)
                        /\ e.index \notin DOMAIN blocks[id]) =>
                          /\ pc'[id] = "stream"
                          /\ blocks'[id] = MapInsert(blocks[id], e.index, e.content_block)]_vars

\* After MessageStart and MessageStop a MessageDelta came: the message is
\* still there and carries the delta's stop_reason.
C38_Witness ==
    \E id \in Spawned :
        /\ backend[id].events =
              <<EvMessageStart, EvMessageStop, EvMessageDelta(Some("EndTurn"), None)>>
        /\ pc[id] = "stream" /\ stream[id].events = <<>>
        /\ message[id] = Some([MessageShell EXCEPT !.stop_reason = Some("EndTurn")])

\* The indices the stream has started before position k and not stopped since.
InProgress(events, k) ==
    {events[j].index : j \in {j \in 1..(k - 1) :
        /\ events[j].type = "ContentBlockStart"
        /\ \A l \in (j + 1)..(k - 1) :
              ~(events[l].type = "ContentBlockStop" /\ events[l].index = events[j].index)}}

\* C39: ContentBlockStart and ContentBlockDelta are accepted when no
\* MessageStart has come yet: the start puts its block among the blocks in
\* progress and the delta extends it, with no message open; a MessageStart
\* that comes later leaves those blocks in place; so the blocks in progress
\* are those started and not stopped, before or after the MessageStart, and
\* the finalized message is made of all of them.
C39_BlocksBeforeMessageStart ==
    /\ [](\A id \in AgentIds :
             pc[id] = "stream" =>
                 DOMAIN blocks[id] = InProgress(backend[id].events, NextPos(id)))
    /\ [][\A id \in AgentIds :
             LET events == backend[id].events
                 k == NextPos(id)
                 e == events[k]
                 b == blocks[id]
             IN  /\ (AgentStreamEvent(id) /\ ~StartSeen(events, k)) =>
                       /\ (e.type = "ContentBlockStart" /\ e.index \notin DOMAIN b) =>
                             /\ pc'[id] = "stream"
                             /\ message'[id] = None
                             /\ blocks'[id] = MapInsert(b, e.index, e.content_block)
                       /\ (e.type = "ContentBlockDelta" /\ e.index \in DOMAIN b
                           /\ b[e.index].kind = (IF e.kind = "Text" THEN "Text" ELSE "ToolUse")) =>
                             /\ pc'[id] = "stream"
                             /\ message'[id] = None
                             /\ blocks'[id] # b
                             /\ DOMAIN blocks'[id] = DOMAIN b
                       /\ e.type = "MessageStart" =>
                             /\ pc'[id] = "stream"
                             /\ blocks'[id] = b
                 /\ (AgentStreamEnd(id) /\ turns'[id] # turns[id]) =>
                       state'[id].messages[Len(state'[id].messages)].content
                           = CollectValues(b, finalOrder'[id])]_vars

\* A text block was started and extended before the MessageStart came; the
\* turn completed and the assistant's answer is that block.
C39_Witness ==
    \E id \in Spawned :
        /\ backend[id].events =
              <<EvContentBlockStart(0, TextBlock("")), EvTextDelta(0, "Hi!"), EvMessageStart>>
        /\ turns[id] = 1
        /\ state[id].messages = <<InputMessage("user", <<TextBlock("hi")>>),
                                  InputMessage("assistant", <<TextBlock("Hi!")>>)>>

\* The UserMessage commands send has accepted for the agent: those its task
\* has processed and those still in its queue.
Accepted(id) ==
    userMsgs[id] + Len(SelectSeq(cmdq[id], LAMBDA c : c.type = "UserMessage"))

\* The user entries and the assistant entries among the first p of a history.
UsersUpTo(h, p) == Len(SelectSeq(SubSeq(h, 1, p), LAMBDA m : m.role = "user"))
AssistantsUpTo(h, p) == Len(SelectSeq(SubSeq(h, 1, p), LAMBDA m : m.role = "assistant"))

\* recv has returned the Message event of a turn whose request history held
\* the agent's n-th user message: the turn's assistant entry stands behind
\* that user entry in the history.
Answered(id, n) ==
    LET h == state[id].messages IN
    \E p \in 1..Len(h) :
        /\ h[p].role = "assistant"
        /\ UsersUpTo(h, p) >= n
        /\ Len(MessageEvents(delivered[id])) >= AssistantsUpTo(h, p)

\* The agent was unpaused and waits with a user message at the end of its
\* history that no request has held yet.
UnpausedTrailing(id) ==
    LET h == state[id].messages IN
    /\ pc[id] = "commands"
    /\ lastPauseCmd[id] = "Unpause" /\ ~state[id].paused
    /\ h # <<>> /\ h[Len(h)].role = "user"
    /\ lastRequest[id].tag = "Some" => Len(lastRequest[id].val.messages) < Len(h)

\* C40: with the agent's task running on and recv called again and again,
\* every UserMessage that send accepted is eventually followed by the Message
\* event of a turn whose request held that user message, or by the agent's
\* Completed/Terminated event, unless the agent is paused (or the caller has
\* stopped calling); and an agent that was unpaused with an unanswered user
\* message at the end of its history eventually starts a turn with that
\* history, unless it is paused again or its task ends. (Accepted messages
\* and histories only grow, so it is stated as: again and again every
\* accepted user message is answered, and again and again no unpaused agent
\* waits with a user message no request has held.)
C40_UserMessageAnswered ==
    /\ \A id \in AgentIds :
          []<>(\/ \A n \in 1..Accepted(id) : Answered(id, n)
               \/ reaped[id] # None
               \/ state[id].paused
               \/ RuntimeDropped)
    /\ \A id \in AgentIds : []<>(~UnpausedTrailing(id))

\* The agent was paused, got a user message and was unpaused: the turn was
\* made and recv has returned its Message event.
C40_Witness ==
    \E id \in Spawned :
        /\ lastPauseCmd[id] = "Unpause"
        /\ sends = 3 /\ userMsgs[id] = 1
        /\ Answered(id, 1)
        /\ reaped[id] = None

====
